---- MODULE Spec2Model ----
(***************************************************************************)
(* A model of @pushforge/builder: buildPushHTTPRequest and the helpers it  *)
(* calls (payload.ts, vapid.ts, jwt.ts, base64.ts, utils.ts,               *)
(* shared-secret.ts).  A call is an async function: it runs synchronously  *)
(* up to its first await, and then from the resolution of one awaited      *)
(* provider promise up to the next await.  Each such run is one action.    *)
(*                                                                         *)
(* Representation of JavaScript values                                     *)
(*   undefined / null      [t |-> "undefined"], [t |-> "null"]             *)
(*   number                [t |-> "number", tenths |-> k], the number k/10 *)
(*   string (plain text)   [t |-> "text", v |-> "..."]                     *)
(*   string (base64url)    [t |-> "b64", v |-> <<sextets>>], one element   *)
(*                         in 0..63 per character of the alphabet          *)
(*   array, object         [t |-> "array"], [t |-> "object", v |-> rec]    *)
(*   bytes (Uint8Array)    a sequence of numbers in 0..255                 *)
(* A function that may throw returns [ok |-> TRUE, value |-> v] or         *)
(* [ok |-> FALSE, error |-> e].                                            *)
(***************************************************************************)
EXTENDS Integers, Sequences, FiniteSets, TLC

VARIABLES
  pc,       \* pc[c]: "idle", the provider promise call c awaits, or "done"
  args,     \* args[c]: what the caller passed: privateJWK, subscription, message
  env,      \* env[c]: the locals of the call (options, salt, keys, ...), gone
            \* once the call has thrown
  log,      \* log[c]: the checks and provider operations the call has run, in order
  outcome,  \* outcome[c]: pending, the returned triple, or the error thrown
  drawn     \* drawn[c]: what the clock, the random sources and the runtime have
            \* supplied to call c so far (history, read by no action)

vars == <<pc, args, env, log, outcome, drawn>>

(***************************************************************************)
(* Bounds of the model.                                                    *)
(***************************************************************************)
\* concurrent invocations in the specification SpecMulti
NumCalls == 2
\* how many refused inputs a call of Spec is given at once
MaxDeviations == 2
\* Math.random() returns k / RandomResolution for k in 0..RandomResolution-1
RandomResolution == 202

Calls == 1..NumCalls

(***************************************************************************)
(* JavaScript values.                                                      *)
(***************************************************************************)
Undefined == [t |-> "undefined"]
Null == [t |-> "null"]
\* numbers are kept to one decimal place: the integer n, and k tenths
Num(n) == [t |-> "number", tenths |-> 10 * n]
Tenths(k) == [t |-> "number", tenths |-> k]
Text(s) == [t |-> "text", v |-> s]
B64(s) == [t |-> "b64", v |-> s]
Arr == [t |-> "array"]
Obj(r) == [t |-> "object", v |-> r]

TypeOf(v) == IF v.t \in {"text", "b64", "jsontext"} THEN "string" ELSE v.t

\* !v
Falsy(v) ==
  CASE v.t \in {"undefined", "null"} -> TRUE
    [] v.t = "number" -> v.tenths = 0
    [] v.t = "text" -> v.v = ""
    [] v.t = "b64" -> Len(v.v) = 0
    [] v.t = "jsontext" -> FALSE
    [] OTHER -> FALSE

\* o.f for a value that is not null or undefined: a missing property, and any
\* property of a number or an array that is not its own, reads as undefined
Get(o, f) ==
  IF o.t = "object" /\ f \in DOMAIN o.v THEN o.v[f] ELSE Undefined

\* o?.f
OptGet(o, f) == IF o.t \in {"undefined", "null"} THEN Undefined ELSE Get(o, f)

Ok == [ok |-> TRUE]
Return(v) == [ok |-> TRUE, value |-> v]
Throw(e) == [ok |-> FALSE, error |-> e]

Fill(n, b) == [i \in 1..n |-> b]

Pow2(n) == CASE n = 0 -> 1 [] n = 2 -> 4 [] n = 4 -> 16 [] n = 6 -> 64
             [] n = 8 -> 256 [] n = 10 -> 1024

(***************************************************************************)
(* base64.ts, utils.ts                                                     *)
(***************************************************************************)
\* base64UrlDecodeString: '-' and '_' become '+' and '/', which leaves the
\* sextets as they are, and '=' is appended up to a multiple of four
\* characters.  The value is the sextets and the number of '=' added.
base64UrlDecodeString(s) ==
  IF Falsy(s) THEN Throw("Invalid input")
  ELSE Return([sextets |-> s.v, pad |-> (4 - (Len(s.v) % 4)) % 4])

\* atob (forgiving-base64 decode): the padding is removed again; one character
\* left over in the last group is an error; every byte is cut from the bit
\* string of the sextets, trailing bits dropped
atob(p) ==
  LET s == p.sextets
      n == Len(s)
      byte(k) ==
        LET bit == 8 * (k - 1)
            i == bit \div 6
            off == bit % 6
            w == s[i + 1] * 64 + s[i + 2]
        IN (w \div Pow2(4 - off)) % 256
  IN IF n % 4 = 1 \/ p.pad > 2 THEN Throw("InvalidCharacterError")
     ELSE Return([k \in 1..((n * 6) \div 8) |-> byte(k)])

\* base64UrlDecode(input): ArrayBuffer (the globalThis.atob branch)
base64UrlDecode(input) ==
  LET base64 == base64UrlDecodeString(input)
  IN IF ~base64.ok THEN base64 ELSE atob(base64.value)

\* base64Decode(base64String) of utils.ts (its Buffer and atob branches agree
\* on text whose length is not 1 modulo 4)
base64Decode(p) == atob(p)

\* base64UrlEncode of bytes: btoa of the binary string, then '=' removed and
\* '+', '/' replaced: the sextets of the bit string, the last one zero-filled
base64UrlEncode(bytes) ==
  LET n == Len(bytes)
      at(i) == IF i <= n THEN bytes[i] ELSE 0
      sextet(j) ==
        LET bit == 6 * (j - 1)
            i == bit \div 8
            off == bit % 8
            w == at(i + 1) * 256 + at(i + 2)
        IN (w \div Pow2(10 - off)) % 64
  IN B64([j \in 1..((n * 8 + 5) \div 6) |-> sextet(j)])

\* concatTypedArrays
RECURSIVE concatTypedArrays(_)
concatTypedArrays(arrays) ==
  IF arrays = <<>> THEN <<>>
  ELSE Head(arrays) \o concatTypedArrays(Tail(arrays))

\* JSON.stringify(v): the text, kept as the value it denotes: that is v, but
\* null for the number NaN.  Text that is not JSON is
\* [t |-> "jsontext", parses |-> FALSE].
JSONStringify(v) ==
  [t |-> "jsontext", parses |-> TRUE,
   value |-> IF "is" \in DOMAIN v /\ v.is = "NaN" THEN [v EXCEPT !.is = "null"] ELSE v]

\* JSON.parse(text)
JSONParse(text) ==
  IF text.parses THEN Return(text.value) ELSE Throw("SyntaxError")

\* a > b and a + b for two numbers
Greater(a, b) == a.tenths > b.tenths
Plus(a, b) == Tenths(a.tenths + b.tenths)

\* number.toString(): the sign, the decimal digits of the integer part, most
\* significant first, and those after the decimal point
RECURSIVE Digits(_)
Digits(n) == IF n < 10 THEN <<n>> ELSE Append(Digits(n \div 10), n % 10)
numberToString(n) ==
  LET abs == IF n.tenths < 0 THEN -n.tenths ELSE n.tenths
  IN [sign |-> IF n.tenths < 0 THEN "-" ELSE "",
      digits |-> Digits(abs \div 10),
      fraction |-> IF abs % 10 = 0 THEN <<>> ELSE <<abs % 10>>]

(***************************************************************************)
(* The platform's URL parser, for the endpoints of the model: whether the  *)
(* text parses as an absolute URL, and the protocol, origin and href new   *)
(* URL(endpoint) then has.                                                 *)
(***************************************************************************)
URLParse(endpoint) ==
  CASE endpoint = "https://fcm.googleapis.com/fcm/send/abc" ->
         Return([protocol |-> "https:", origin |-> "https://fcm.googleapis.com",
                 href |-> "https://fcm.googleapis.com/fcm/send/abc"])
    [] endpoint = "https://push.example.com:8443/p?x=1" ->
         Return([protocol |-> "https:", origin |-> "https://push.example.com:8443",
                 href |-> "https://push.example.com:8443/p?x=1"])
    [] endpoint = "HTTPS://Updates.Push.Services.Mozilla.com/wpush/v2/abc" ->
         Return([protocol |-> "https:",
                 origin |-> "https://updates.push.services.mozilla.com",
                 href |-> "https://updates.push.services.mozilla.com/wpush/v2/abc"])
    [] endpoint = "http://example.com/push" ->
         Return([protocol |-> "http:", origin |-> "http://example.com",
                 href |-> "http://example.com/push"])
    [] endpoint = "wss://example.com/push" ->
         Return([protocol |-> "wss:", origin |-> "wss://example.com",
                 href |-> "wss://example.com/push"])
    [] OTHER -> Throw("TypeError: Invalid URL")

(***************************************************************************)
(* request.ts: the validations                                             *)
(***************************************************************************)
\* a === b for two values of the model
StrictEq(a, b) == a.t = b.t /\ a = b

\* validatePrivateJWK without the check of the private key
validatePrivateJWKPublicOnly(jwk) ==
  IF jwk.t \in {"null", "undefined"}
    THEN Throw("TypeError: Cannot read properties of null")
  ELSE IF ~StrictEq(Get(jwk, "kty"), Text("EC"))
    THEN Throw("Invalid JWK: 'kty' must be 'EC'")
  ELSE IF ~StrictEq(Get(jwk, "crv"), Text("P-256"))
    THEN Throw("Invalid JWK: 'crv' must be 'P-256'")
  ELSE IF Falsy(Get(jwk, "x")) \/ TypeOf(Get(jwk, "x")) # "string"
    THEN Throw("Invalid JWK: missing or invalid 'x' coordinate")
  ELSE IF Falsy(Get(jwk, "y")) \/ TypeOf(Get(jwk, "y")) # "string"
    THEN Throw("Invalid JWK: missing or invalid 'y' coordinate")
  ELSE Ok

\* jwk.kty and the other properties of null or undefined cannot be read; the
\* errors are those of the code without the value received
validatePrivateJWK(jwk) ==
  IF jwk.t \in {"null", "undefined"}
    THEN Throw("TypeError: Cannot read properties of null")
  ELSE IF ~StrictEq(Get(jwk, "kty"), Text("EC"))
    THEN Throw("Invalid JWK: 'kty' must be 'EC'")
  ELSE IF ~StrictEq(Get(jwk, "crv"), Text("P-256"))
    THEN Throw("Invalid JWK: 'crv' must be 'P-256'")
  ELSE IF Falsy(Get(jwk, "x")) \/ TypeOf(Get(jwk, "x")) # "string"
    THEN Throw("Invalid JWK: missing or invalid 'x' coordinate")
  ELSE IF Falsy(Get(jwk, "y")) \/ TypeOf(Get(jwk, "y")) # "string"
    THEN Throw("Invalid JWK: missing or invalid 'y' coordinate")
  ELSE IF Falsy(Get(jwk, "d")) \/ TypeOf(Get(jwk, "d")) # "string"
    THEN Throw("Invalid JWK: missing or invalid 'd' (private key)")
  ELSE Ok

\* validateEndpoint without the check of the protocol
validateEndpointAnyProtocol(endpoint) ==
  LET url == URLParse(endpoint)
  IN IF ~url.ok
       THEN Throw("Invalid subscription endpoint: is not a valid URL")
     ELSE Ok

validateEndpoint(endpoint) ==
  LET url == URLParse(endpoint)
  IN IF ~url.ok
       THEN Throw("Invalid subscription endpoint: is not a valid URL")
     ELSE IF url.value.protocol # "https:"
       THEN Throw("Invalid subscription endpoint: push endpoints must use HTTPS")
     ELSE Ok

\* typeof privateJWK === 'string' ? JSON.parse(privateJWK) : privateJWK, in
\* its try/catch
parsePrivateJWK(privateJWK) ==
  IF TypeOf(privateJWK) = "string"
    THEN LET r == JSONParse(privateJWK)
         IN IF r.ok THEN r
            ELSE Throw("Invalid privateJWK: failed to parse JSON string")
    ELSE Return(privateJWK)

MAX_TTL == 24 * 60 * 60

\* message.options?.ttl
ttlOption(message) == OptGet(message.options, "ttl")

\* message.options?.ttl && message.options.ttl > MAX_TTL
ttlTooLarge(message) ==
  ~Falsy(ttlOption(message)) /\ Greater(ttlOption(message), Num(MAX_TTL))

\* const ttl = message.options?.ttl && message.options.ttl > 0 ? ... : MAX_TTL
resolveTtl(message) ==
  IF ~Falsy(ttlOption(message)) /\ Greater(ttlOption(message), Num(0))
    THEN ttlOption(message)
    ELSE Num(MAX_TTL)

\* Math.floor(Date.now() / 1000)
unixSeconds(nowMs) == Num(nowMs \div 1000)

\* the claims with the expiry always 24 hours ahead
jwtClaimsLatestExpiry(subscription, message, ttl, nowMs) ==
  [aud |-> URLParse(subscription.endpoint).value.origin,
   exp |-> Plus(unixSeconds(nowMs), Num(MAX_TTL)),
   sub |-> message.adminContact]

\* the claims with the whole endpoint as the audience
jwtClaimsEndpointAudience(subscription, message, ttl, nowMs) ==
  [aud |-> URLParse(subscription.endpoint).value.href,
   exp |-> Plus(unixSeconds(nowMs), ttl),
   sub |-> message.adminContact]

\* const jwt = { aud, exp, sub }
jwtClaims(subscription, message, ttl, nowMs) ==
  [aud |-> URLParse(subscription.endpoint).value.origin,
   exp |-> Plus(unixSeconds(nowMs), ttl),
   sub |-> message.adminContact]

\* ...(v && { name: v })
spread(name, v) == IF Falsy(v) THEN <<>> ELSE name :> v

\* the options without the topic
pushOptionsWithoutTopic(jwk, jwt, message, ttl) ==
  [jwk |-> jwk, jwt |-> jwt, payload |-> JSONStringify(message.payload),
   ttl |-> ttl]
    @@ spread("urgency", OptGet(message.options, "urgency"))

\* const options: PushOptions = { jwk, jwt, payload, ttl, urgency?, topic? }
pushOptions(jwk, jwt, message, ttl) ==
  [jwk |-> jwk, jwt |-> jwt, payload |-> JSONStringify(message.payload),
   ttl |-> ttl]
    @@ spread("urgency", OptGet(message.options, "urgency"))
    @@ spread("topic", OptGet(message.options, "topic"))

\* crypto.getRandomValues(new Uint8Array(16)) left undone: the array as allocated
getRandomValuesUndone(saltBytes) == Fill(16, 0)

\* crypto.getRandomValues(new Uint8Array(16)): the array filled with the bytes
\* the random source yields
getRandomValues(saltBytes) == saltBytes

(***************************************************************************)
(* buildPushHTTPRequest up to its first await: the identity is parsed and  *)
(* validated, the endpoint and the TTL are checked, the claims and the     *)
(* options are built, the salt is drawn and generateKey is called.  The    *)
(* value is the checks and provider operations run, and the error thrown   *)
(* or the locals.                                                          *)
(***************************************************************************)
buildPrefix(a, nowMs, saltBytes) ==
  LET parsed == parsePrivateJWK(a.privateJWK)
      jwkOk == validatePrivateJWK(parsed.value)
      endpointOk == validateEndpoint(a.subscription.endpoint)
      ttl == resolveTtl(a.message)
      jwt == jwtClaims(a.subscription, a.message, ttl, nowMs)
  IN IF ~parsed.ok
       THEN [ok |-> FALSE, error |-> parsed.error, ran |-> <<"parsePrivateJWK">>]
     ELSE IF ~jwkOk.ok
       THEN [ok |-> FALSE, error |-> jwkOk.error,
             ran |-> <<"parsePrivateJWK", "validatePrivateJWK">>]
     ELSE IF ~endpointOk.ok
       THEN [ok |-> FALSE, error |-> endpointOk.error,
             ran |-> <<"parsePrivateJWK", "validatePrivateJWK", "validateEndpoint">>]
     ELSE IF ttlTooLarge(a.message)
       THEN [ok |-> FALSE, error |-> "TTL must be less than 24 hours",
             ran |-> <<"parsePrivateJWK", "validatePrivateJWK", "validateEndpoint",
                       "checkTtl">>]
     ELSE [ok |-> TRUE,
           ran |-> <<"parsePrivateJWK", "validatePrivateJWK", "validateEndpoint",
                     "checkTtl", "JSON.stringify", "getRandomValues", "generateKey">>,
           locals |-> [options |-> pushOptions(parsed.value, jwt, a.message, ttl),
                       salt |-> getRandomValues(saltBytes),
                       \* what Date.now() returned when the claims were built
                       now |-> nowMs]]

(***************************************************************************)
(* The Web Crypto provider.  Keys and derived bits are terms: a key pair   *)
(* is named by its public point, ECDH of a private key and a public key is *)
(* the unordered pair of the two public points, HKDF and AES-GCM and ECDSA *)
(* are the record of their inputs.                                         *)
(***************************************************************************)
\* generateKey({ name: 'ECDH', namedCurve: 'P-256' }): the pair drawn is k
generateKey(k) ==
  LET raw == <<4>> \o Fill(32, k) \o Fill(32, k + 1)
  IN [publicKey |-> [type |-> "public", raw |-> raw],
      privateKey |-> [type |-> "private", of |-> raw]]

\* importKey('jwk', { kty, crv, x, y }): the public key of that point
importPublicJwk(jwk) ==
  [type |-> "public",
   raw |-> <<4>> \o base64UrlDecode(jwk.x).value \o base64UrlDecode(jwk.y).value]

\* exportKey('raw', publicKey)
exportRaw(key) == key.raw

\* deriveBits({ name: 'ECDH', public }, privateKey, 256)
ecdhBits(publicKey, privateKey) == [ecdh |-> {publicKey.raw, privateKey.of}]

\* deriveBits({ name: 'HKDF', hash: 'SHA-256', salt, info }, key, length)
hkdfBits(salt, info, key, length) ==
  [hkdf |-> [salt |-> salt, info |-> info, ikm |-> key.raw, bits |-> length]]

\* importKey('raw', bits, algorithm)
importRaw(bits, algorithm) == [type |-> "secret", alg |-> algorithm, raw |-> bits]

\* encrypt giving the ciphertext without its tag
aesGcmEncryptTagless(iv, key, data) ==
  [aesgcm |-> [key |-> key.raw, iv |-> iv, plaintext |-> data],
   byteLength |-> Len(data)]

\* encrypt({ name: 'AES-GCM', iv }, key, data): the ciphertext and its 16-byte tag
aesGcmEncrypt(iv, key, data) ==
  [aesgcm |-> [key |-> key.raw, iv |-> iv, plaintext |-> data],
   byteLength |-> Len(data) + 16]

\* importKey('jwk', jwk, { name: 'ECDSA', namedCurve: 'P-256' })
importPrivateJwk(jwk) == [type |-> "private", jwk |-> jwk]

\* sign({ name: 'ECDSA', hash: 'SHA-256' }, privateKey, data)
ecdsaSign(privateKey, data) == [ecdsa |-> [key |-> privateKey, data |-> data]]

(***************************************************************************)
(* payload.ts                                                              *)
(***************************************************************************)
MAX_PAYLOAD_SIZE == 4078
PADDING_LENGTH_PREFIX_SIZE == 2

Min(a, b) == IF a < b THEN a ELSE b

\* importClientKeys without the check of the point format
importClientKeysAnyFormat(keys) ==
  LET auth == base64UrlDecode(keys.auth)
      base64Key == base64UrlDecodeString(keys.p256dh)
      decodedKey == atob(base64Key.value)
  IN IF ~auth.ok THEN auth
     ELSE IF Len(auth.value) # 16 THEN Throw("Incorrect auth length")
     ELSE IF ~base64Key.ok THEN base64Key
     ELSE IF ~decodedKey.ok THEN decodedKey
     ELSE IF Len(decodedKey.value) # 65
       THEN Throw("Invalid p256dh key: expected 65 bytes")
     ELSE Return([auth |-> auth.value,
                  jwk |-> [kty |-> "EC", crv |-> "P-256",
                           x |-> base64UrlEncode(SubSeq(decodedKey.value, 2, 33)),
                           y |-> base64UrlEncode(SubSeq(decodedKey.value, 34, 65))]])

\* importClientKeys up to its await: the auth secret and the public key are
\* decoded and checked, and the key to import is built
importClientKeys(keys) ==
  LET auth == base64UrlDecode(keys.auth)
      base64Key == base64UrlDecodeString(keys.p256dh)
      decodedKey == atob(base64Key.value)
  IN IF ~auth.ok THEN auth
     ELSE IF Len(auth.value) # 16 THEN Throw("Incorrect auth length")
     ELSE IF ~base64Key.ok THEN base64Key
     ELSE IF ~decodedKey.ok THEN decodedKey
     ELSE IF Len(decodedKey.value) # 65
       THEN Throw("Invalid p256dh key: expected 65 bytes")
     ELSE IF decodedKey.value[1] # 4
       THEN Throw("Invalid p256dh key: expected uncompressed point format")
     ELSE Return([auth |-> auth.value,
                  jwk |-> [kty |-> "EC", crv |-> "P-256",
                           x |-> base64UrlEncode(SubSeq(decodedKey.value, 2, 33)),
                           y |-> base64UrlEncode(SubSeq(decodedKey.value, 34, 65))]])

\* new TextEncoder().encode(...) of the three info prefixes and of 'P-256\0'
AuthInfo ==
  <<67, 111, 110, 116, 101, 110, 116, 45, 69, 110, 99, 111, 100, 105, 110, 103,
    58, 32, 97, 117, 116, 104, 0>>
NonceInfoPrefix ==
  <<67, 111, 110, 116, 101, 110, 116, 45, 69, 110, 99, 111, 100, 105, 110, 103,
    58, 32, 110, 111, 110, 99, 101, 0>>
AesgcmInfoPrefix ==
  <<67, 111, 110, 116, 101, 110, 116, 45, 69, 110, 99, 111, 100, 105, 110, 103,
    58, 32, 97, 101, 115, 103, 99, 109, 0>>
CurveLabel == <<80, 45, 50, 53, 54, 0>>

\* createContext with the local key before the client's
createContextLocalFirst(clientKeyBytes, localKeyBytes) ==
  concatTypedArrays(<<CurveLabel,
                      <<0, Len(localKeyBytes) % 256>>, localKeyBytes,
                      <<0, Len(clientKeyBytes) % 256>>, clientKeyBytes>>)

\* createContext, given the two exported keys
createContext(clientKeyBytes, localKeyBytes) ==
  concatTypedArrays(<<CurveLabel,
                      <<0, Len(clientKeyBytes) % 256>>, clientKeyBytes,
                      <<0, Len(localKeyBytes) % 256>>, localKeyBytes>>)

\* the padding size without the limit of 100: any of the available space
paddingSizeUnclamped(payloadLength, k) ==
  LET availableSpace ==
        MAX_PAYLOAD_SIZE - PADDING_LENGTH_PREFIX_SIZE - payloadLength
  IN IF availableSpace > 0
       THEN (k * (availableSpace + 1)) \div RandomResolution
       ELSE 0

\* the padding size padPayload picks when Math.random() is k / RandomResolution
paddingSize(payloadLength, k) ==
  LET availableSpace ==
        MAX_PAYLOAD_SIZE - PADDING_LENGTH_PREFIX_SIZE - payloadLength
      maxRandomPadding == Min(100, availableSpace)
  IN IF maxRandomPadding > 0
       THEN (k * (maxRandomPadding + 1)) \div RandomResolution
       ELSE 0

\* padPayload with the size check off by one (>= for >)
padPayloadOffByOne(payload, k) ==
  LET maxPayloadContentSize == MAX_PAYLOAD_SIZE - PADDING_LENGTH_PREFIX_SIZE
      size == paddingSize(Len(payload), k)
      paddingArray == <<(size \div 256) % 256, size % 256>> \o Fill(size, 0)
  IN IF Len(payload) >= maxPayloadContentSize
       THEN Throw("Payload too large")
       ELSE Return(concatTypedArrays(<<paddingArray, payload>>))

\* padPayload with the padding length written least significant byte first
padPayloadLittleEndian(payload, k) ==
  LET maxPayloadContentSize == MAX_PAYLOAD_SIZE - PADDING_LENGTH_PREFIX_SIZE
      size == paddingSize(Len(payload), k)
      paddingArray == <<size % 256, (size \div 256) % 256>> \o Fill(size, 0)
  IN IF Len(payload) > maxPayloadContentSize
       THEN Throw("Payload too large")
       ELSE Return(concatTypedArrays(<<paddingArray, payload>>))

\* padPayload with the padding after the payload
padPayloadTrailing(payload, k) ==
  LET maxPayloadContentSize == MAX_PAYLOAD_SIZE - PADDING_LENGTH_PREFIX_SIZE
      size == paddingSize(Len(payload), k)
  IN IF Len(payload) > maxPayloadContentSize
       THEN Throw("Payload too large")
       ELSE Return(concatTypedArrays(
              << <<(size \div 256) % 256, size % 256>>, payload, Fill(size, 0) >>))

\* padPayload with the padding filled by the random source: every byte of it
\* the low byte of the numerator drawn
padPayloadRandomFilled(payload, k) ==
  LET maxPayloadContentSize == MAX_PAYLOAD_SIZE - PADDING_LENGTH_PREFIX_SIZE
      size == paddingSize(Len(payload), k)
      paddingArray == <<(size \div 256) % 256, size % 256>> \o Fill(size, 1 + (k % 255))
  IN IF Len(payload) > maxPayloadContentSize
       THEN Throw("Payload too large")
       ELSE Return(concatTypedArrays(<<paddingArray, payload>>))

\* padPayload(payload), Math.random() being k / RandomResolution
padPayload(payload, k) ==
  LET maxPayloadContentSize == MAX_PAYLOAD_SIZE - PADDING_LENGTH_PREFIX_SIZE
      size == paddingSize(Len(payload), k)
      \* new ArrayBuffer(2 + size) is zero-filled; setUint16(0, size) is big-endian
      paddingArray == <<(size \div 256) % 256, size % 256>> \o Fill(size, 0)
  IN IF Len(payload) > maxPayloadContentSize
       THEN Throw("Payload too large")
       ELSE Return(concatTypedArrays(<<paddingArray, payload>>))

\* new TextEncoder().encode(text) for the JSON text of a payload: a payload of
\* the model is [size |-> its UTF-8 length, tag |-> a byte that tells it apart]
textEncode(text) ==
  [i \in 1..text.value.size |->
     IF i = 1 THEN 123 ELSE IF i = text.value.size THEN 125 ELSE text.value.tag]

(***************************************************************************)
(* jwt.ts, vapid.ts, utils.ts                                              *)
(***************************************************************************)
\* strings with a character above U+00FF, which btoa refuses
WideStrings == {"mailto:<U+0430>dmin@example.com"}

\* base64UrlEncode of a string: btoa(text) without padding, kept as the text
\* it encodes
base64UrlEncodeText(text) ==
  IF \E f \in DOMAIN text.value \ {"exp"} : text.value[f] \in WideStrings
    THEN Throw("InvalidCharacterError")
    ELSE Return([t |-> "b64text", of |-> text])

\* base64UrlEncode of the signature bytes
base64UrlEncodeSignature(signature) == [t |-> "b64sig", of |-> signature]

\* getPublicKeyFromJwk reading d where it should read y
getPublicKeyFromJwkPrivateScalar(jwk) ==
  LET x == base64UrlDecodeString(Get(jwk, "x"))
      d == base64UrlDecodeString(Get(jwk, "d"))
  IN IF ~x.ok THEN x
     ELSE IF ~d.ok THEN d
     ELSE IF ~base64Decode(x.value).ok THEN base64Decode(x.value)
     ELSE IF ~base64Decode(d.value).ok THEN base64Decode(d.value)
     ELSE Return(base64UrlEncode(
            <<4>> \o base64Decode(x.value).value \o base64Decode(d.value).value))

\* getPublicKeyFromJwk
getPublicKeyFromJwk(jwk) ==
  LET x == base64UrlDecodeString(Get(jwk, "x"))
      y == base64UrlDecodeString(Get(jwk, "y"))
  IN IF ~x.ok THEN x
     ELSE IF ~y.ok THEN y
     ELSE IF ~base64Decode(x.value).ok THEN base64Decode(x.value)
     ELSE IF ~base64Decode(y.value).ok THEN base64Decode(y.value)
     ELSE Return(base64UrlEncode(
            <<4>> \o base64Decode(x.value).value \o base64Decode(y.value).value))

\* createJwt up to its first await: the header and the claims are encoded
jwtInfo == [typ |-> "JWT", alg |-> "ES256"]

unsignedToken(jwtData) ==
  LET base64JwtInfo == base64UrlEncodeText(JSONStringify(jwtInfo))
      base64JwtData == base64UrlEncodeText(JSONStringify(jwtData))
  IN IF ~base64JwtInfo.ok THEN base64JwtInfo
     ELSE IF ~base64JwtData.ok THEN base64JwtData
     ELSE Return(<<base64JwtInfo.value, base64JwtData.value>>)

\* `${base64JwtInfo}.${base64JwtData}.${signature}`: the parts the dots separate
signedToken(unsigned, signature) ==
  Append(unsigned, base64UrlEncodeSignature(signature))

\* the header values with the length of the plaintext as Content-Length
headerValuesPlaintextLength(options, payloadLength, salt, localPublicKeyBase64, serverPublicKey, jwt) ==
  ("Encryption" :> [salt |-> base64UrlEncode(salt)])
    @@ ("Crypto-Key" :> [dh |-> localPublicKeyBase64])
    @@ ("Content-Length" :> numberToString(Num(payloadLength - 16)))
    @@ ("Content-Type" :> "application/octet-stream")
    @@ ("Content-Encoding" :> "aesgcm")
    @@ ("Authorization" :> [scheme |-> "vapid", t |-> jwt, k |-> serverPublicKey])
    @@ (IF "ttl" \in DOMAIN options
          THEN "TTL" :> numberToString(options.ttl) ELSE <<>>)
    @@ (IF "topic" \in DOMAIN options THEN "Topic" :> options.topic ELSE <<>>)
    @@ (IF "urgency" \in DOMAIN options THEN "Urgency" :> options.urgency ELSE <<>>)

\* the header values of vapidHeaders; a template string is the record of its parts
headerValues(options, payloadLength, salt, localPublicKeyBase64, serverPublicKey, jwt) ==
  ("Encryption" :> [salt |-> base64UrlEncode(salt)])
    @@ ("Crypto-Key" :> [dh |-> localPublicKeyBase64])
    @@ ("Content-Length" :> numberToString(Num(payloadLength)))
    @@ ("Content-Type" :> "application/octet-stream")
    @@ ("Content-Encoding" :> "aesgcm")
    @@ ("Authorization" :> [scheme |-> "vapid", t |-> jwt, k |-> serverPublicKey])
    @@ (IF "ttl" \in DOMAIN options
          THEN "TTL" :> numberToString(options.ttl) ELSE <<>>)
    @@ (IF "topic" \in DOMAIN options THEN "Topic" :> options.topic ELSE <<>>)
    @@ (IF "urgency" \in DOMAIN options THEN "Urgency" :> options.urgency ELSE <<>>)

\* the name of a header in lower case, as a Headers object keeps and looks up
\* the names
LowerCase(name) ==
  CASE name = "Encryption" -> "encryption"
    [] name = "Crypto-Key" -> "crypto-key"
    [] name = "Content-Length" -> "content-length"
    [] name = "Content-Type" -> "content-type"
    [] name = "Content-Encoding" -> "content-encoding"
    [] name = "Authorization" -> "authorization"
    [] name = "TTL" -> "ttl"
    [] name = "Topic" -> "topic"
    [] name = "Urgency" -> "urgency"
    [] OTHER -> name

\* a Headers object strips the leading and trailing white space of a value
\* (the texts of the model)
normalizeValue(text) ==
  IF text.v = " spaced-topic " THEN Text("spaced-topic") ELSE text

\* what vapidHeaders returns: new Headers(headerValues) where the platform
\* defines Headers, the plain record elsewhere.  (Of the values of the model
\* only a topic has surrounding white space, and none has a character a
\* header cannot carry.)
headersOf(values, headersDefined) ==
  IF headersDefined
    THEN [t |-> "Headers",
          list |-> [n \in { LowerCase(k) : k \in DOMAIN values } |->
                      LET k == CHOOSE k \in DOMAIN values : LowerCase(k) = n
                      IN IF k = "Topic" THEN normalizeValue(values[k])
                         ELSE values[k]]]
    ELSE [t |-> "record", v |-> values]

\* whether the header map has the header, and its value: headers.get(name) of
\* a Headers object, headers[name] of a record
headersHas(headers, name) ==
  IF headers.t = "Headers" THEN LowerCase(name) \in DOMAIN headers.list
  ELSE name \in DOMAIN headers.v
headersGet(headers, name) ==
  IF headers.t = "Headers" THEN headers.list[LowerCase(name)]
  ELSE headers.v[name]

(***************************************************************************)
(* The inputs of the model.  Each of the seven inputs of a call has a      *)
(* tuple of choices, the first being a valid default; a call is invoked    *)
(* with the defaults, with one input off its default, or with up to        *)
(* MaxDeviations inputs that the call refuses.                             *)
(***************************************************************************)
ValidJwk ==
  [kty |-> Text("EC"), crv |-> Text("P-256"), x |-> B64(Fill(43, 10)),
   y |-> B64(Fill(43, 22)), d |-> B64(Fill(43, 30))]

\* r without its field f
Without(r, f) == [g \in DOMAIN r \ {f} |-> r[g]]

\* the last three have a coordinate of another length than 32 bytes: 42
\* characters decode to 31 bytes, 44 to 33.  validatePrivateJWK passes them;
\* what the provider's importKey makes of them is the provider's affair (one
\* that reads the coordinates as integers takes a short one, a strict one
\* rejects it), so both ImportVapidKeyResolves and ProviderRejects are open
JwkChoices ==
  << Obj(ValidJwk),
     JSONStringify(Obj(ValidJwk)),
     [t |-> "jsontext", parses |-> FALSE],
     JSONStringify(Null),
     JSONStringify(Num(42)),
     JSONStringify(Arr),
     JSONStringify(Obj([kty |-> Text("EC")])),
     JSONStringify(Obj([ValidJwk EXCEPT !.crv = Text("P-384")])),
     Obj([ValidJwk EXCEPT !.kty = Text("RSA")]),
     Obj(Without(ValidJwk, "kty")),
     Obj([ValidJwk EXCEPT !.crv = Text("P-384")]),
     Obj(Without(ValidJwk, "crv")),
     Obj(Without(ValidJwk, "x")),
     Obj([ValidJwk EXCEPT !.x = B64(<<>>)]),
     Obj([ValidJwk EXCEPT !.x = Num(42)]),
     Obj(Without(ValidJwk, "y")),
     Obj([ValidJwk EXCEPT !.y = B64(<<>>)]),
     Obj([ValidJwk EXCEPT !.y = Null]),
     Obj(Without(ValidJwk, "d")),
     Obj([ValidJwk EXCEPT !.d = B64(<<>>)]),
     Obj([ValidJwk EXCEPT !.d = Num(42)]),
     Obj([Without(ValidJwk, "d") EXCEPT !.kty = Text("RSA")]),
     Obj([ValidJwk EXCEPT !.x = B64(Fill(42, 10))]),
     Obj([ValidJwk EXCEPT !.y = B64(Fill(44, 22))]),
     Obj([ValidJwk EXCEPT !.d = B64(Fill(42, 30))]) >>

EndpointChoices ==
  << "https://fcm.googleapis.com/fcm/send/abc",
     "https://push.example.com:8443/p?x=1",
     "HTTPS://Updates.Push.Services.Mozilla.com/wpush/v2/abc",
     "http://example.com/push",
     "wss://example.com/push",
     "not-a-valid-url",
     "" >>

OptionsChoices ==
  << Obj([ttl |-> Num(3600)]),
     Undefined,
     Obj([ttl |-> Num(0)]),
     Obj([ttl |-> Num(-5)]),
     Obj([ttl |-> Num(1)]),
     Obj([ttl |-> Num(MAX_TTL)]),
     Obj([ttl |-> Num(MAX_TTL + 1)]),
     Obj([ttl |-> Num(604800)]),
     Obj([ttl |-> Tenths(5)]),
     Obj([ttl |-> Tenths(10 * MAX_TTL + 5)]),
     Obj([topic |-> Text("from-test-env")]),
     Obj([urgency |-> Text("high")]),
     Obj([ttl |-> Num(60), topic |-> Text("from-test-env"), urgency |-> Text("high")]),
     Obj([ttl |-> Num(60), topic |-> Text("")]),
     Obj([ttl |-> Num(60), topic |-> Text(" spaced-topic ")]) >>

\* 22 characters decode to 16 bytes, 20 to 15, 23 to 17; 21 do not decode
AuthChoices ==
  << B64(Fill(22, 5)), B64(<<>>), B64(Fill(20, 5)), B64(Fill(23, 5)),
     B64(Fill(21, 5)), B64(Fill(4, 0)) >>

\* 87 characters decode to 65 bytes, 86 to 64, 88 to 66; the first byte is
\* that of the first two characters: <<1, 0>> is 0x04, <<0, 48>> is 0x03
P256dhChoices ==
  << B64(<<1, 0>> \o Fill(85, 7)), B64(<<>>), B64(<<1, 0>> \o Fill(84, 7)),
     B64(<<1, 0>> \o Fill(86, 7)), B64(<<0, 48>> \o Fill(85, 7)),
     B64(<<0, 0>> \o Fill(85, 7)), B64(Fill(4, 0)) >>

\* payloads by the UTF-8 length of their JSON text; the last is the number
\* NaN, whose JSON text is the four characters of null
PayloadChoices ==
  << [size |-> MAX_PAYLOAD_SIZE - 3, tag |-> 120],
     [size |-> 2, tag |-> 0],
     [size |-> 3976, tag |-> 121],
     [size |-> 3977, tag |-> 122],
     [size |-> MAX_PAYLOAD_SIZE - 2, tag |-> 120],
     [size |-> MAX_PAYLOAD_SIZE - 1, tag |-> 120],
     [size |-> 5000, tag |-> 120],
     [size |-> 4, tag |-> 117, is |-> "NaN"] >>

ContactChoices ==
  << "mailto:admin@example.com", "https://example.com/contact",
     "mailto:<U+0430>dmin@example.com" >>

NumChoices ==
  << Len(JwkChoices), Len(EndpointChoices), Len(OptionsChoices), Len(AuthChoices),
     Len(P256dhChoices), Len(PayloadChoices), Len(ContactChoices) >>

\* the choice of input d under selection g (the inputs g does not name are
\* at their default)
Pick(g, d) == IF d \in DOMAIN g THEN g[d] ELSE 1

ArgsOf(g) ==
  [privateJWK |-> JwkChoices[Pick(g, 1)],
   subscription |->
     [endpoint |-> EndpointChoices[Pick(g, 2)],
      keys |-> [auth |-> AuthChoices[Pick(g, 4)], p256dh |-> P256dhChoices[Pick(g, 5)]]],
   message |->
     [payload |-> PayloadChoices[Pick(g, 6)],
      adminContact |-> ContactChoices[Pick(g, 7)],
      options |-> OptionsChoices[Pick(g, 3)]]]

\* the selections that deviate from the default in input d only
Deviations(d) == { d :> i : i \in 2..NumChoices[d] }

\* the choices of input d that a check of the call refuses
Refused(d) ==
  { g[d] : g \in { h \in Deviations(d) :
      LET a == ArgsOf(h)
          r == buildPrefix(a, 0, Fill(16, 0))
      IN \/ ~r.ok
         \/ ~importClientKeys(a.subscription.keys).ok
         \/ ~padPayload(textEncode(r.locals.options.payload), 0).ok } }

\* the selections of at most n refused choices, of the inputs from d on
RECURSIVE Defects(_, _)
Defects(d, n) ==
  IF n = 0 \/ d > Len(NumChoices) THEN { <<>> }
  ELSE Defects(d + 1, n)
         \cup { (d :> i) @@ g : i \in Refused(d), g \in Defects(d + 1, n - 1) }

\* the inputs of the calls of Spec: the default, every single deviation from
\* it, and every combination of up to MaxDeviations refused choices
Selections ==
  Defects(1, MaxDeviations) \cup UNION { Deviations(d) : d \in 1..Len(NumChoices) }

\* the inputs of the calls of SpecMulti: the short payload, with the default
\* auth secret and with one of 15 bytes
MultiSelections == { (6 :> 2), (4 :> 3) @@ (6 :> 2) }

\* Date.now() in milliseconds (a clock that fits the model checker's integers)
ClockReadings == {1500000999, 1500001000}

\* crypto.getRandomValues(new Uint8Array(16)) and the key pair generateKey
\* returns: what the random source can produce in the model
SaltDraws == {Fill(16, 1), Fill(16, 2)}
KeyDraws == {17, 34}

\* Math.random() as k / RandomResolution: its least values, its greatest and
\* those around one half
RandomNumerators ==
  {0, 1, RandomResolution \div 2 - 1, RandomResolution \div 2, RandomResolution - 1}

\* what the callers, the clock and the random source of Spec and of SpecMulti
\* can produce
Sources ==
  [inputs |-> Selections, clock |-> ClockReadings, salt |-> SaltDraws,
   key |-> KeyDraws, random |-> RandomNumerators, headersDefined |-> BOOLEAN]
MultiSources ==
  [inputs |-> MultiSelections, clock |-> {1500000999}, salt |-> SaltDraws,
   key |-> {17}, random |-> {0}, headersDefined |-> {TRUE}]

(***************************************************************************)
(* buildPushHTTPRequest(a) run from its call to its end with nothing else  *)
(* running: its outcome, `supplied` being what the clock, the random       *)
(* sources and the runtime give it and the provider resolving every        *)
(* promise.  What a call that ends early does not ask for is not read.     *)
(***************************************************************************)
alone(a, supplied) ==
  LET prefix == buildPrefix(a, supplied.now, supplied.salt)
      options == prefix.locals.options
      salt == prefix.locals.salt
      \* encryptPayload
      localKeys == generateKey(supplied.key)
      clientKeys == importClientKeys(a.subscription.keys)
      p256 == importPublicJwk(clientKeys.value.jwk)
      sharedSecret == importRaw(ecdhBits(p256, localKeys.privateKey), "HKDF")
      pseudoRandomKey ==
        importRaw(hkdfBits(clientKeys.value.auth, AuthInfo, sharedSecret, 256), "HKDF")
      context == createContext(exportRaw(p256), exportRaw(localKeys.publicKey))
      nonce == hkdfBits(salt, concatTypedArrays(<<NonceInfoPrefix, context>>),
                        pseudoRandomKey, 12 * 8)
      contentEncryptionKey ==
        importRaw(hkdfBits(salt, concatTypedArrays(<<AesgcmInfoPrefix, context>>),
                           pseudoRandomKey, 16 * 8), "AES-GCM")
      paddedPayload == padPayload(textEncode(options.payload), supplied.random)
      body == aesGcmEncrypt(nonce, contentEncryptionKey, paddedPayload.value)
      \* vapidHeaders
      serverPublicKey == getPublicKeyFromJwk(options.jwk)
      unsigned == unsignedToken(options.jwt)
      jwt == signedToken(unsigned.value,
                         ecdsaSign(importPrivateJwk(options.jwk), unsigned.value))
      values == headerValues(options, body.byteLength, salt,
                             base64UrlEncode(exportRaw(localKeys.publicKey)),
                             serverPublicKey.value, jwt)
  IN IF ~prefix.ok THEN [kind |-> "error", error |-> prefix.error]
     ELSE IF ~clientKeys.ok THEN [kind |-> "error", error |-> clientKeys.error]
     ELSE IF ~paddedPayload.ok THEN [kind |-> "error", error |-> paddedPayload.error]
     ELSE IF ~serverPublicKey.ok THEN [kind |-> "error", error |-> serverPublicKey.error]
     ELSE IF ~unsigned.ok THEN [kind |-> "error", error |-> unsigned.error]
     ELSE [kind |-> "returned",
           value |-> [endpoint |-> a.subscription.endpoint, body |-> body,
                      headers |-> headersOf(values, supplied.headersDefined)]]

(***************************************************************************)
(* The state machine.                                                      *)
(***************************************************************************)
Pending == [kind |-> "pending"]
Returned(v) == [kind |-> "returned", value |-> v]
Rejected(e) == [kind |-> "error", error |-> e]

Init ==
  /\ pc = [c \in Calls |-> "idle"]
  /\ args = [c \in Calls |-> <<>>]
  /\ env = [c \in Calls |-> <<>>]
  /\ log = [c \in Calls |-> <<>>]
  /\ outcome = [c \in Calls |-> Pending]
  /\ drawn = [c \in Calls |-> <<>>]

\* the call goes on to await the promise `next`, having run `ran` and set
\* `locals`, the environment having supplied it with `supplied`
ContinueWith(c, next, ran, locals, supplied) ==
  /\ pc' = [pc EXCEPT ![c] = next]
  /\ log' = [log EXCEPT ![c] = @ \o ran]
  /\ env' = [env EXCEPT ![c] = locals @@ @]
  /\ drawn' = [drawn EXCEPT ![c] = supplied @@ @]
  /\ UNCHANGED <<args, outcome>>

\* the call goes on to await the promise `next`, having run `ran` and set `locals`
Continue(c, next, ran, locals) == ContinueWith(c, next, ran, locals, <<>>)

\* the call catches e and resolves its promise with what it has built so far
FailWithPartialResult(c, ran, e, supplied) ==
  /\ pc' = [pc EXCEPT ![c] = "done"]
  /\ log' = [log EXCEPT ![c] = @ \o ran]
  /\ outcome' = [outcome EXCEPT ![c] =
                   [kind |-> "returned",
                    value |-> [endpoint |-> args[c].subscription.endpoint]]]
  /\ env' = [env EXCEPT ![c] = <<>>]
  /\ drawn' = [drawn EXCEPT ![c] = supplied @@ @]
  /\ UNCHANGED args

\* the call throws e, having run `ran`: the promise it returned is rejected
FailWith(c, ran, e, supplied) ==
  /\ pc' = [pc EXCEPT ![c] = "done"]
  /\ log' = [log EXCEPT ![c] = @ \o ran]
  /\ outcome' = [outcome EXCEPT ![c] = Rejected(e)]
  /\ env' = [env EXCEPT ![c] = <<>>]
  /\ drawn' = [drawn EXCEPT ![c] = supplied @@ @]
  /\ UNCHANGED args

\* the call throws e, having run `ran`: the promise it returned is rejected
Fail(c, ran, e) == FailWith(c, ran, e, <<>>)

\* buildPushHTTPRequest(a) is called: it runs up to `await generateKey(...)`
Start(c, a, nowMs, saltBytes) ==
  LET r == buildPrefix(a, nowMs, saltBytes)
  IN /\ args' = [args EXCEPT ![c] = a]
     /\ log' = [log EXCEPT ![c] = r.ran]
     /\ IF r.ok
          THEN /\ pc' = [pc EXCEPT ![c] = "generateKey"]
               /\ env' = [env EXCEPT ![c] = r.locals]
               /\ drawn' = [drawn EXCEPT ![c] = [now |-> nowMs, salt |-> saltBytes]]
               /\ UNCHANGED outcome
          ELSE /\ pc' = [pc EXCEPT ![c] = "done"]
               /\ outcome' = [outcome EXCEPT ![c] = Rejected(r.error)]
               /\ UNCHANGED <<env, drawn>>

\* a caller invokes call c with some input, at some time, and the random
\* source yields some salt
Invoke(c, src) ==
  /\ pc[c] = "idle"
  /\ \E g \in src.inputs, nowMs \in src.clock, saltBytes \in src.salt :
       Start(c, ArgsOf(g), nowMs, saltBytes)

\* generateKey resolves with pair k; encryptPayload starts and importClientKeys
\* runs up to `await importKey(...)`
GenerateKeyResolves(c, src) ==
  /\ pc[c] = "generateKey"
  /\ \E k \in src.key :
     LET clientKeys == importClientKeys(args[c].subscription.keys)
     IN IF clientKeys.ok
          THEN ContinueWith(c, "importKey:p256dh", <<"importClientKeys", "importKey">>,
                            [localKeys |-> generateKey(k),
                             auth |-> clientKeys.value.auth,
                             clientJwk |-> clientKeys.value.jwk],
                            [key |-> k])
          ELSE FailWith(c, <<"importClientKeys">>, clientKeys.error, [key |-> k])

\* deriveSharedSecret: deriveBits(ECDH) is called with the imported key
ImportClientKeyResolves(c) ==
  /\ pc[c] = "importKey:p256dh"
  /\ Continue(c, "deriveBits:ECDH", <<"deriveBits">>,
              [p256 |-> importPublicJwk(env[c].clientJwk)])

EcdhResolves(c) ==
  /\ pc[c] = "deriveBits:ECDH"
  /\ Continue(c, "importKey:sharedSecret", <<"importKey">>,
              [sharedSecretBytes |-> ecdhBits(env[c].p256, env[c].localKeys.privateKey)])

\* derivePseudoRandomKey: deriveBits(HKDF) with the auth secret as salt
ImportSharedSecretResolves(c) ==
  /\ pc[c] = "importKey:sharedSecret"
  /\ Continue(c, "deriveBits:PRK", <<"deriveBits">>,
              [sharedSecret |-> importRaw(env[c].sharedSecretBytes, "HKDF")])

\* derivePseudoRandomKey with an empty salt in place of the auth secret
PrkResolvesWithoutAuth(c) ==
  /\ pc[c] = "deriveBits:PRK"
  /\ Continue(c, "importKey:PRK", <<"importKey">>,
              [pseudoRandomKeyBytes |->
                 hkdfBits(<<>>, AuthInfo, env[c].sharedSecret, 256)])

PrkResolves(c) ==
  /\ pc[c] = "deriveBits:PRK"
  /\ Continue(c, "importKey:PRK", <<"importKey">>,
              [pseudoRandomKeyBytes |->
                 hkdfBits(env[c].auth, AuthInfo, env[c].sharedSecret, 256)])

\* createContext called once the payload is padded: the frame is built before
\* the nonce and the content-encryption key are derived
ImportPrkResolvesPadding(c) ==
  /\ pc[c] = "importKey:PRK"
  /\ Continue(c, "exportKey:context", <<"encode", "padPayload", "exportKey", "exportKey">>,
              [pseudoRandomKey |-> importRaw(env[c].pseudoRandomKeyBytes, "HKDF")])

\* createContext: both public keys are exported
ImportPrkResolves(c) ==
  /\ pc[c] = "importKey:PRK"
  /\ Continue(c, "exportKey:context", <<"exportKey", "exportKey">>,
              [pseudoRandomKey |-> importRaw(env[c].pseudoRandomKeyBytes, "HKDF")])

\* deriveNonce
ExportContextResolves(c) ==
  /\ pc[c] = "exportKey:context"
  /\ Continue(c, "deriveBits:nonce", <<"deriveBits">>,
              [context |-> createContext(exportRaw(env[c].p256),
                                         exportRaw(env[c].localKeys.publicKey))])

\* deriveNonce with a salt kept in a variable of the module, which the call
\* that drew last has set
NonceResolvesSharedSalt(c) ==
  /\ pc[c] = "deriveBits:nonce"
  /\ LET salt == IF "salt" \in DOMAIN env[1] THEN env[1].salt ELSE env[c].salt
     IN Continue(c, "deriveBits:CEK", <<"deriveBits">>,
                 [nonce |-> hkdfBits(salt,
                                     concatTypedArrays(<<NonceInfoPrefix, env[c].context>>),
                                     env[c].pseudoRandomKey, 12 * 8)])

\* deriveContentEncryptionKey
NonceResolves(c) ==
  /\ pc[c] = "deriveBits:nonce"
  /\ Continue(c, "deriveBits:CEK", <<"deriveBits">>,
              [nonce |-> hkdfBits(env[c].salt,
                                  concatTypedArrays(<<NonceInfoPrefix, env[c].context>>),
                                  env[c].pseudoRandomKey, 12 * 8)])

\* deriveContentEncryptionKey with the salt of the call that drew first, kept
\* for the calls that follow
CekResolvesReusedSalt(c) ==
  /\ pc[c] = "deriveBits:CEK"
  /\ LET salt == IF "salt" \in DOMAIN env[1] THEN env[1].salt ELSE env[c].salt
     IN Continue(c, "importKey:CEK", <<"importKey">>,
                 [cekBits |-> hkdfBits(salt,
                                       concatTypedArrays(<<AesgcmInfoPrefix, env[c].context>>),
                                       env[c].pseudoRandomKey, 16 * 8)])

CekResolves(c) ==
  /\ pc[c] = "deriveBits:CEK"
  /\ Continue(c, "importKey:CEK", <<"importKey">>,
              [cekBits |-> hkdfBits(env[c].salt,
                                    concatTypedArrays(<<AesgcmInfoPrefix, env[c].context>>),
                                    env[c].pseudoRandomKey, 16 * 8)])

\* the payload is encoded and padded, Math.random() being k / RandomResolution,
\* and encrypt is called
ImportCekResolves(c, src) ==
  /\ pc[c] = "importKey:CEK"
  /\ \E k \in src.random :
     LET paddedPayload == padPayload(textEncode(env[c].options.payload), k)
     IN IF paddedPayload.ok
          THEN ContinueWith(c, "encrypt", <<"encode", "padPayload", "encrypt">>,
                            [contentEncryptionKey |-> importRaw(env[c].cekBits, "AES-GCM"),
                             paddedPayload |-> paddedPayload.value],
                            [random |-> k])
          ELSE FailWith(c, <<"encode", "padPayload">>, paddedPayload.error,
                        [random |-> k])

\* encryptPayload returns the body; vapidHeaders exports the local public key
EncryptResolves(c) ==
  /\ pc[c] = "encrypt"
  /\ Continue(c, "exportKey:dh", <<"exportKey">>,
              [body |-> aesGcmEncrypt(env[c].nonce, env[c].contentEncryptionKey,
                                      env[c].paddedPayload)])

\* vapidHeaders given the subscriber's public key where the ephemeral one
\* belongs
ExportDhResolvesSubscriberKey(c) ==
  /\ pc[c] = "exportKey:dh"
  /\ LET serverPublicKey == getPublicKeyFromJwk(env[c].options.jwk)
         unsigned == unsignedToken(env[c].options.jwt)
     IN IF ~serverPublicKey.ok
          THEN Fail(c, <<"getPublicKeyFromJwk">>, serverPublicKey.error)
        ELSE IF ~unsigned.ok
          THEN Fail(c, <<"getPublicKeyFromJwk", "createJwt">>, unsigned.error)
        ELSE Continue(c, "importKey:VAPID",
                      <<"getPublicKeyFromJwk", "createJwt", "importKey">>,
                      [localPublicKeyBase64 |-> base64UrlEncode(exportRaw(env[c].p256)),
                       serverPublicKey |-> serverPublicKey.value,
                       unsignedToken |-> unsigned.value])

\* getPublicKeyFromJwk, then createJwt up to `await importKey(...)`
ExportDhResolves(c) ==
  /\ pc[c] = "exportKey:dh"
  /\ LET serverPublicKey == getPublicKeyFromJwk(env[c].options.jwk)
         unsigned == unsignedToken(env[c].options.jwt)
     IN IF ~serverPublicKey.ok
          THEN Fail(c, <<"getPublicKeyFromJwk">>, serverPublicKey.error)
        ELSE IF ~unsigned.ok
          THEN Fail(c, <<"getPublicKeyFromJwk", "createJwt">>, unsigned.error)
        ELSE Continue(c, "importKey:VAPID",
                      <<"getPublicKeyFromJwk", "createJwt", "importKey">>,
                      [localPublicKeyBase64 |->
                         base64UrlEncode(exportRaw(env[c].localKeys.publicKey)),
                       serverPublicKey |-> serverPublicKey.value,
                       unsignedToken |-> unsigned.value])

\* createJwt deleting the private scalar from the caller's JWK object once the
\* key is imported
ImportVapidKeyResolvesScrubbing(c) ==
  /\ pc[c] = "importKey:VAPID"
  /\ pc' = [pc EXCEPT ![c] = "sign"]
  /\ log' = [log EXCEPT ![c] = Append(@, "sign")]
  /\ env' = [env EXCEPT ![c] = [privateKey |-> importPrivateJwk(env[c].options.jwk)] @@ @]
  /\ args' = [args EXCEPT ![c].privateJWK =
                IF @.t = "object" THEN Obj(Without(@.v, "d")) ELSE @]
  /\ UNCHANGED <<outcome, drawn>>

ImportVapidKeyResolves(c) ==
  /\ pc[c] = "importKey:VAPID"
  /\ Continue(c, "sign", <<"sign">>,
              [privateKey |-> importPrivateJwk(env[c].options.jwk)])

\* the request with the endpoint as the URL parser serializes it
requestOfParsedEndpoint(subscription, body, headers) ==
  [endpoint |-> URLParse(subscription.endpoint).value.href, body |-> body,
   headers |-> headers]

\* what buildPushHTTPRequest returns: { endpoint: subscription.endpoint, body, headers }
requestOf(subscription, body, headers) ==
  [endpoint |-> subscription.endpoint, body |-> body, headers |-> headers]

\* the token is signed; vapidHeaders builds the headers and the call returns
SignResolves(c, src) ==
  /\ pc[c] = "sign"
  /\ \E headersDefined \in src.headersDefined :
     LET jwt == signedToken(env[c].unsignedToken,
                            ecdsaSign(env[c].privateKey, env[c].unsignedToken))
         values == headerValues(env[c].options, env[c].body.byteLength, env[c].salt,
                                env[c].localPublicKeyBase64, env[c].serverPublicKey, jwt)
         headers == headersOf(values, headersDefined)
     IN /\ pc' = [pc EXCEPT ![c] = "done"]
        /\ outcome' = [outcome EXCEPT ![c] =
                         Returned(requestOf(args[c].subscription, env[c].body, headers))]
        /\ log' = [log EXCEPT ![c] = Append(@, "return")]
        /\ drawn' = [drawn EXCEPT ![c] = [headersDefined |-> headersDefined] @@ @]
        /\ UNCHANGED <<args, env>>

Awaiting ==
  {"generateKey", "importKey:p256dh", "deriveBits:ECDH", "importKey:sharedSecret",
   "deriveBits:PRK", "importKey:PRK", "exportKey:context", "deriveBits:nonce",
   "deriveBits:CEK", "importKey:CEK", "encrypt", "exportKey:dh", "importKey:VAPID",
   "sign"}

\* the promise the call awaits is rejected and the call asks the provider again
\* before it throws
ProviderRejectsAskingAgain(c) ==
  /\ pc[c] \in Awaiting
  /\ Fail(c, <<"generateKey">>, "provider: " \o pc[c])

\* the promise the call awaits is rejected by the provider: the call throws
ProviderRejects(c) ==
  /\ pc[c] \in Awaiting
  /\ Fail(c, <<>>, "provider: " \o pc[c])

\* the promise the call awaits is resolved
Resolves(c, src) ==
  \/ GenerateKeyResolves(c, src)
  \/ ImportClientKeyResolves(c)
  \/ EcdhResolves(c)
  \/ ImportSharedSecretResolves(c)
  \/ PrkResolves(c)
  \/ ImportPrkResolves(c)
  \/ ExportContextResolves(c)
  \/ NonceResolves(c)
  \/ CekResolves(c)
  \/ ImportCekResolves(c, src)
  \/ EncryptResolves(c)
  \/ ExportDhResolves(c)
  \/ ImportVapidKeyResolves(c)
  \/ SignResolves(c, src)

\* one call, over all the inputs of the model
Next ==
  \/ Invoke(1, Sources)
  \/ Resolves(1, Sources)
  \/ ProviderRejects(1)

Spec == Init /\ [][Next]_vars

\* NumCalls calls running concurrently, on a valid input or on one whose auth
\* secret is refused, the provider resolving every promise
NextMulti ==
  \E c \in Calls :
    \/ Invoke(c, MultiSources)
    \/ Resolves(c, MultiSources)

SpecMulti == Init /\ [][NextMulti]_vars

(***************************************************************************)
(* The properties.                                                         *)
(***************************************************************************)
\* call c has run the check or the provider operation op
Ran(c, op) == \E i \in DOMAIN log[c] : log[c][i] = op

\* call c was rejected with error e
RejectedWith(c, e) == outcome[c].kind = "error" /\ outcome[c].error = e

InputValidatorErrors ==
  {"Invalid privateJWK: failed to parse JSON string",
   "Invalid JWK: 'kty' must be 'EC'", "Invalid JWK: 'crv' must be 'P-256'",
   "Invalid JWK: missing or invalid 'x' coordinate",
   "Invalid JWK: missing or invalid 'y' coordinate",
   "Invalid JWK: missing or invalid 'd' (private key)",
   "Invalid subscription endpoint: is not a valid URL",
   "Invalid subscription endpoint: push endpoints must use HTTPS",
   "TTL must be less than 24 hours",
   "Incorrect auth length", "Invalid p256dh key: expected 65 bytes",
   "Invalid p256dh key: expected uncompressed point format"}

ProviderOperations ==
  {"getRandomValues", "generateKey", "importKey", "deriveBits", "encrypt", "sign"}

\* C1: a call rejected for an Input Validator condition (identity key,
\* serialized identity, endpoint, subscriber auth secret, subscriber public
\* key, TTL) has invoked no provider operation (getRandomValues, generateKey,
\* importKey, deriveBits, encrypt, sign) before the rejection.
FailsFast ==
  \A c \in Calls :
    (outcome[c].kind = "error" /\ outcome[c].error \in InputValidatorErrors)
      => \A op \in ProviderOperations : ~Ran(c, op)

\* C2: a TTL option above 86400 fails the build with the TTL error; one
\* between 1 and 86400 is the resolved TTL; absent, 0 or negative, the resolved
\* TTL is 86400; so the resolved TTL of a call that passed the check lies in
\* [1, 86400].
TtlResolution ==
  \A c \in Calls :
    Ran(c, "checkTtl") =>
      LET t == ttlOption(args[c].message)
      IN /\ (t.t = "number" /\ t.tenths > 10 * 86400)
              => RejectedWith(c, "TTL must be less than 24 hours")
         /\ "options" \in DOMAIN env[c] =>
              LET r == env[c].options.ttl
              IN /\ (t.t = "number" /\ t.tenths >= 10 /\ t.tenths <= 10 * 86400)
                      => r = t
                 /\ (t.t = "undefined" \/ (t.t = "number" /\ t.tenths <= 0))
                      => r = Num(86400)
                 /\ r.tenths >= 10 /\ r.tenths <= 10 * 86400

\* the byte length of the serialized payload of call c
PayloadLength(c) == args[c].message.payload.size

\* C3: padPayload accepts a serialized payload of n <= 4076 bytes and rejects
\* one of n >= 4077 bytes with 'Payload too large'; at n = 4076 the padding
\* length is 0; on rejection encrypt is never called.
PayloadBoundary ==
  \A c \in Calls :
    Ran(c, "padPayload") =>
      /\ PayloadLength(c) >= 4077 => RejectedWith(c, "Payload too large")
      /\ PayloadLength(c) <= 4076 =>
           /\ ~RejectedWith(c, "Payload too large")
           /\ Ran(c, "encrypt")
      /\ (PayloadLength(c) = 4076 /\ "paddedPayload" \in DOMAIN env[c]) =>
           /\ Len(env[c].paddedPayload) = 2 + 4076
           /\ SubSeq(env[c].paddedPayload, 1, 2) = <<0, 0>>
      /\ RejectedWith(c, "Payload too large") => ~Ran(c, "encrypt")

\* a payload of exactly 4076 bytes has been padded and encrypted
PayloadBoundaryWitness ==
  \E c \in Calls :
    /\ pc[c] = "done" /\ outcome[c].kind = "returned"
    /\ PayloadLength(c) = 4076
    /\ Len(env[c].paddedPayload) = 4078

\* keys.auth is empty or does not decode to 16 bytes
BadAuth(keys) ==
  LET auth == base64UrlDecode(keys.auth)
  IN ~auth.ok \/ Len(auth.value) # 16

\* keys.p256dh is empty, does not decode to 65 bytes, or to 65 bytes that do
\* not start with 0x04
BadP256dh(keys) ==
  LET decodedKey == base64UrlDecode(keys.p256dh)
  IN ~decodedKey.ok \/ Len(decodedKey.value) # 65 \/ decodedKey.value[1] # 4

\* C4: with keys.auth empty or not of 16 bytes, or keys.p256dh empty, not of
\* 65 bytes or not starting with 0x04, the build is rejected: the subscriber
\* public key is never imported, and nothing is derived or encrypted.
SubscriberKeyValidation ==
  \A c \in Calls :
    (pc[c] # "idle" /\ (\/ BadAuth(args[c].subscription.keys)
                        \/ BadP256dh(args[c].subscription.keys))) =>
      /\ pc[c] \in {"generateKey", "done"}
      /\ pc[c] = "done" => outcome[c].kind = "error"
      /\ ~Ran(c, "importKey") /\ ~Ran(c, "deriveBits") /\ ~Ran(c, "encrypt")

\* importClientKeys has refused a public key of 65 bytes that does not start
\* with 0x04
SubscriberKeyValidationWitness ==
  \E c \in Calls :
    /\ RejectedWith(c, "Invalid p256dh key: expected uncompressed point format")
    /\ Ran(c, "importClientKeys")
    /\ BadP256dh(args[c].subscription.keys)

\* the JWK that call c validates, when its privateJWK is an object or the JSON
\* text of one
IsJwkObject(c) ==
  LET k == args[c].privateJWK
  IN \/ k.t = "object"
     \/ k.t = "jsontext" /\ k.parses /\ k.value.t = "object"
JwkObject(c) ==
  IF args[c].privateJWK.t = "jsontext" THEN args[c].privateJWK.value.v
  ELSE args[c].privateJWK.v

\* property f of record r is a non-empty string
NonEmptyString(r, f) ==
  /\ f \in DOMAIN r
  /\ \/ r[f].t = "text" /\ r[f].v # ""
     \/ r[f].t = "b64" /\ Len(r[f].v) > 0

\* r has kty 'EC', crv 'P-256' and non-empty strings x, y and d
EcP256Key(r) ==
  /\ "kty" \in DOMAIN r /\ r.kty.t = "text" /\ r.kty.v = "EC"
  /\ "crv" \in DOMAIN r /\ r.crv.t = "text" /\ r.crv.v = "P-256"
  /\ \A f \in {"x", "y", "d"} : NonEmptyString(r, f)

InvalidJwkErrors ==
  {"Invalid JWK: 'kty' must be 'EC'", "Invalid JWK: 'crv' must be 'P-256'",
   "Invalid JWK: missing or invalid 'x' coordinate",
   "Invalid JWK: missing or invalid 'y' coordinate",
   "Invalid JWK: missing or invalid 'd' (private key)"}

\* C5: a VAPID JWK, object or JSON text, whose kty is not 'EC', whose crv is
\* not 'P-256' or of which x, y or d is missing, empty or not a string is
\* rejected with an 'Invalid JWK' error; one with kty 'EC', crv 'P-256' and
\* non-empty strings x, y, d passes the validation.
IdentityKeyValidation ==
  \A c \in Calls :
    (pc[c] # "idle" /\ IsJwkObject(c)) =>
      IF EcP256Key(JwkObject(c))
        THEN /\ Ran(c, "validateEndpoint")
             /\ outcome[c].kind = "error" => outcome[c].error \notin InvalidJwkErrors
        ELSE /\ outcome[c].kind = "error" /\ outcome[c].error \in InvalidJwkErrors
             /\ ~Ran(c, "validateEndpoint")

\* a JWK without d has been rejected
IdentityKeyValidationWitness ==
  \E c \in Calls :
    /\ pc[c] = "done" /\ IsJwkObject(c)
    /\ "d" \notin DOMAIN JwkObject(c)
    /\ \A f \in {"x", "y"} : NonEmptyString(JwkObject(c), f)
    /\ RejectedWith(c, "Invalid JWK: missing or invalid 'd' (private key)")

\* C6: a privateJWK given as a string that is not JSON, or that is JSON but
\* not an EC P-256 key object (null, a number, an array), fails the build with
\* an 'Invalid privateJWK' or 'Invalid JWK' error, never with another error
\* and never by going on.
SerializedIdentityDecoding ==
  \A c \in Calls :
    (/\ pc[c] # "idle"
     /\ args[c].privateJWK.t = "jsontext"
     /\ ~(IsJwkObject(c) /\ EcP256Key(JwkObject(c)))) =>
      /\ outcome[c].kind = "error"
      /\ outcome[c].error \in
           InvalidJwkErrors \cup {"Invalid privateJWK: failed to parse JSON string"}

\* C7: an endpoint that is not a valid absolute URL (the empty string too)
\* fails the build with the 'is not a valid URL' error, one that parses with
\* another scheme than https with the 'must use HTTPS' error; either way
\* before the TTL check, before randomness is drawn and before a key is
\* generated.
EndpointValidation ==
  \A c \in Calls :
    LET url == URLParse(args[c].subscription.endpoint)
    IN (pc[c] # "idle" /\ (~url.ok \/ url.value.protocol # "https:")) =>
         /\ pc[c] = "done" /\ outcome[c].kind = "error"
         /\ Ran(c, "validateEndpoint") =>
              outcome[c].error =
                IF url.ok
                  THEN "Invalid subscription endpoint: push endpoints must use HTTPS"
                  ELSE "Invalid subscription endpoint: is not a valid URL"
         /\ ~Ran(c, "checkTtl") /\ ~Ran(c, "getRandomValues")
         /\ ~Ran(c, "generateKey")

\* an http endpoint has been refused, the identity being valid
EndpointValidationWitness ==
  \E c \in Calls :
    /\ Ran(c, "validateEndpoint")
    /\ args[c].subscription.endpoint = "http://example.com/push"
    /\ RejectedWith(c, "Invalid subscription endpoint: push endpoints must use HTTPS")

\* C8: the endpoint a successful call returns is the subscription's endpoint
\* string, unchanged: not normalised, not its origin; so calls with the same
\* subscription return the same endpoint.
EndpointUnchanged ==
  \A c \in Calls :
    outcome[c].kind = "returned" =>
      /\ outcome[c].value.endpoint = args[c].subscription.endpoint
      /\ \A d \in Calls :
           (/\ outcome[d].kind = "returned"
            /\ args[d].subscription = args[c].subscription)
             => outcome[d].value.endpoint = outcome[c].value.endpoint

\* a call has returned an endpoint that the URL parser would have rewritten
EndpointUnchangedWitness ==
  \E c \in Calls :
    /\ outcome[c].kind = "returned"
    /\ outcome[c].value.endpoint =
         "HTTPS://Updates.Push.Services.Mozilla.com/wpush/v2/abc"
    /\ URLParse(args[c].subscription.endpoint).value.href # outcome[c].value.endpoint

\* header `name` of the request call c returned
Header(c, name) == headersGet(outcome[c].value.headers, name)

\* the claims of the token in the Authorization header call c returned
TokenClaims(c) == Header(c, "Authorization").t[2].of.value

\* the resolved TTL of call c, by the rule of C2
ResolvedTtl(c) ==
  LET t == ttlOption(args[c].message)
  IN IF t.t = "number" /\ t.tenths > 0 THEN t ELSE Num(86400)

\* C9: the exp claim of a signed token is the unix time in whole seconds at
\* which the call built the claims plus the resolved TTL, so it is at most
\* now + 86400 and at least now; the TTL header carries the same resolved TTL.
ExpiryClaim ==
  \A c \in Calls :
    outcome[c].kind = "returned" =>
      LET nowSeconds == env[c].now \div 1000
          exp == TokenClaims(c).exp
      IN /\ exp.tenths = 10 * nowSeconds + ResolvedTtl(c).tenths
         /\ exp.tenths <= 10 * (nowSeconds + 86400)
         /\ exp.tenths >= 10 * nowSeconds
         /\ Header(c, "TTL") = numberToString(ResolvedTtl(c))

\* a token has been signed for a message with a TTL of one second
ExpiryClaimWitness ==
  \E c \in Calls :
    /\ outcome[c].kind = "returned"
    /\ ttlOption(args[c].message) = Num(1)
    /\ TokenClaims(c).exp = Num(env[c].now \div 1000 + 1)
    /\ Header(c, "TTL").digits = <<1>>

RequiredHeaders ==
  \A c \in Calls :
    outcome[c].kind = "returned" =>
      /\ \A name \in {"Content-Type", "Content-Encoding", "Encryption", "Crypto-Key",
                      "Authorization", "TTL", "Content-Length"} :
           headersHas(outcome[c].value.headers, name)
      /\ Header(c, "Content-Type") = "application/octet-stream"
      /\ Header(c, "Content-Encoding") = "aesgcm"
      /\ DOMAIN Header(c, "Encryption") = {"salt"}
      /\ base64UrlDecode(Header(c, "Encryption").salt) = Return(env[c].salt)
      /\ DOMAIN Header(c, "Crypto-Key") = {"dh"}
      /\ base64UrlDecode(Header(c, "Crypto-Key").dh)
           = Return(exportRaw(env[c].localKeys.publicKey))
      /\ Header(c, "TTL") = numberToString(ResolvedTtl(c))
      /\ Header(c, "Content-Length")
           = numberToString(Num(outcome[c].value.body.byteLength))

\* a call has returned a Headers object whose Content-Length is 4094, the body
\* being a frame of 4078 bytes and the 16 bytes of the tag
RequiredHeadersWitness ==
  \E c \in Calls :
    /\ outcome[c].kind = "returned"
    /\ outcome[c].value.headers.t = "Headers"
    /\ outcome[c].value.body.byteLength = 4094
    /\ Header(c, "Content-Length").digits = <<4, 0, 9, 4>>

\* the message of call c has option `name`, and has it as a non-empty text
Specified(c, name) ==
  /\ args[c].message.options.t = "object"
  /\ name \in DOMAIN args[c].message.options.v
NonEmpty(c, name) ==
  Specified(c, name) /\ args[c].message.options.v[name].v # ""

aesGcmDecrypt(iv, key, ciphertext) ==
  IF ciphertext.aesgcm.key = key.raw /\ ciphertext.aesgcm.iv = iv
    THEN Return(ciphertext.aesgcm.plaintext)
    ELSE Throw("OperationError")

\* the content of a frame: two bytes of padding length, big-endian, that many
\* bytes of padding, then the content
unpad(frame) ==
  LET size == frame[1] * 256 + frame[2]
  IN IF Len(frame) < 2 + size
       THEN Throw("bad padding")
       ELSE Return(SubSeq(frame, 3 + size, Len(frame)))

\* new TextDecoder().decode(bytes): the JSON text of a payload that encodes
\* to these bytes, or text that is not JSON
textDecode(bytes) ==
  LET texts == { JSONStringify(PayloadChoices[i]) : i \in DOMAIN PayloadChoices }
      encoded == { text \in texts :
                     text.value.size = Len(bytes) /\ textEncode(text) = bytes }
  IN IF encoded = {} THEN [t |-> "jsontext", parses |-> FALSE]
     ELSE CHOOSE text \in encoded : TRUE

\* what the holder of `keys` reads in `request`
received(keys, request) ==
  LET own == atob(base64UrlDecodeString(keys.p256dh).value).value
      auth == base64UrlDecode(keys.auth).value
      salt == base64UrlDecode(headersGet(request.headers, "Encryption").salt).value
      dh == base64UrlDecode(headersGet(request.headers, "Crypto-Key").dh).value
      secret == ecdhBits([type |-> "public", raw |-> dh],
                         [type |-> "private", of |-> own])
      prk == importRaw(hkdfBits(auth, AuthInfo, importRaw(secret, "HKDF"), 256), "HKDF")
      context == createContext(own, dh)
      nonce == hkdfBits(salt, concatTypedArrays(<<NonceInfoPrefix, context>>), prk, 96)
      cek == hkdfBits(salt, concatTypedArrays(<<AesgcmInfoPrefix, context>>), prk, 128)
      frame == aesGcmDecrypt(nonce, importRaw(cek, "AES-GCM"), request.body)
  IN IF frame.ok THEN unpad(frame.value) ELSE frame

\* what the subscriber of call c reads in the request the call returned, and
\* the value it parses out of that
Decrypted(c) == received(args[c].subscription.keys, outcome[c].value)
Parsed(c) ==
  IF Decrypted(c).ok THEN JSONParse(textDecode(Decrypted(c).value)) ELSE Decrypted(c)

\* the UTF-8 bytes of the JSON text of the payload of call c
PayloadBytes(c) == textEncode(JSONStringify(args[c].message.payload))

\* C13: two calls that returned for the same identity, subscription and
\* message, and to which the random source gave different salts or different
\* key pairs, have different content-encryption keys or different nonces,
\* and different bodies; the subscriber reads the payload in either body.
DistinctCiphertexts ==
  \A c, d \in Calls :
    (c # d /\ outcome[c].kind = "returned" /\ outcome[d].kind = "returned"
       /\ args[c] = args[d]) =>
      /\ (drawn[c].salt # drawn[d].salt \/ drawn[c].key # drawn[d].key) =>
           /\ <<env[c].cekBits, env[c].nonce>> # <<env[d].cekBits, env[d].nonce>>
           /\ outcome[c].value.body # outcome[d].value.body
      /\ Decrypted(c) = Return(PayloadBytes(c))
      /\ Decrypted(d) = Return(PayloadBytes(c))

\* two calls with the same arguments have returned, having drawn different salts
DistinctCiphertextsWitness ==
  \E c, d \in Calls :
    /\ c # d /\ outcome[c].kind = "returned" /\ outcome[d].kind = "returned"
    /\ args[c] = args[d]
    /\ drawn[c].salt # drawn[d].salt
    /\ outcome[c].value.body # outcome[d].value.body

Supplied(c) ==
  drawn[c] @@ [now |-> 0, salt |-> Fill(16, 0), key |-> 0, random |-> 0,
               headersDefined |-> FALSE]

\* C15: whatever the interleaving of the awaited steps of the concurrent
\* calls, the outcome of a call that has ended, error or request, is the one
\* buildPushHTTPRequest gives running alone on the same arguments with the
\* same clock reading and random draws; so the salt and the ephemeral key in
\* its headers are its own.
ConcurrentCallsIndependent ==
  \A c \in Calls :
    pc[c] = "done" =>
      /\ outcome[c] = alone(args[c], Supplied(c))
      /\ outcome[c].kind = "returned" =>
           /\ base64UrlDecode(Header(c, "Encryption").salt) = Return(drawn[c].salt)
           /\ base64UrlDecode(Header(c, "Crypto-Key").dh)
                = Return(generateKey(drawn[c].key).publicKey.raw)

\* of two calls given different salts, the first has been rejected for its
\* auth secret and the second has returned
ConcurrentCallsIndependentWitness ==
  /\ pc[1] = "done" /\ pc[2] = "done"
  /\ outcome[1].kind = "error" /\ outcome[1].error = "Incorrect auth length"
  /\ outcome[2].kind = "returned"
  /\ drawn[1].salt # drawn[2].salt

\* how many times call c has run op
RECURSIVE Count(_, _)
Count(seq, op) ==
  IF seq = <<>> THEN 0
  ELSE (IF Head(seq) = op THEN 1 ELSE 0) + Count(Tail(seq), op)

\* the checks of call c have all passed
ChecksPassed(c) ==
  /\ buildPrefix(args[c], 0, Fill(16, 0)).ok
  /\ importClientKeys(args[c].subscription.keys).ok
  /\ padPayload(PayloadBytes(c), 0).ok
  /\ getPublicKeyFromJwk(parsePrivateJWK(args[c].privateJWK).value).ok

\* C16: a call has an outcome exactly when it has ended, and the outcome never
\* changes afterwards.  A returned outcome is the whole triple, returned once
\* at the end of a call whose checks have all passed and whose encryption and
\* signature have been made; any other ended call has an error and nothing
\* else: no endpoint, no headers, no body.
NoPartialSuccess ==
  /\ [](\A c \in Calls :
         /\ (pc[c] = "done") <=> (outcome[c].kind # "pending")
         /\ outcome[c].kind \in {"pending", "returned", "error"}
         /\ outcome[c].kind = "returned" =>
              /\ DOMAIN outcome[c] = {"kind", "value"}
              /\ DOMAIN outcome[c].value = {"endpoint", "headers", "body"}
              /\ Count(log[c], "return") = 1
              /\ log[c][Len(log[c])] = "return"
              /\ ChecksPassed(c)
              /\ Count(log[c], "encrypt") = 1 /\ Count(log[c], "sign") = 1
         /\ outcome[c].kind = "error" =>
              /\ DOMAIN outcome[c] = {"kind", "error"}
              /\ Count(log[c], "return") = 0)
  /\ [][\A c \in Calls :
          outcome[c].kind # "pending" => outcome'[c] = outcome[c] /\ log'[c] = log[c]]_vars

\* a call has been rejected by the provider at the signature, after the body
\* was encrypted, and has returned nothing
NoPartialSuccessWitness ==
  \E c \in Calls :
    /\ outcome[c].kind = "error"
    /\ outcome[c].error = "provider: sign"
    /\ Ran(c, "encrypt")
    /\ ~Ran(c, "return")

\* C17: from the moment a call is made, what the caller passed to it (the
\* JWK, the subscription, the message) stays as it was, through every step of
\* that call and of any other, whether the calls return or throw; and two
\* ended calls given the same arguments, clock reading and draws have the
\* same outcome, whichever calls were made before them.
CallerInputsUntouched ==
  /\ [][\A c \in Calls : pc[c] # "idle" => args'[c] = args[c]]_vars
  /\ [](\A c, d \in Calls :
         (pc[c] = "done" /\ pc[d] = "done" /\ args[c] = args[d]
            /\ drawn[c] = drawn[d]) => outcome[c] = outcome[d])

\* two calls made with the same arguments and given the same draws have
\* returned the same request, and the JWK they were given is still whole
CallerInputsUntouchedWitness ==
  /\ outcome[1].kind = "returned" /\ outcome[2].kind = "returned"
  /\ args[1] = args[2] /\ drawn[1] = drawn[2]
  /\ outcome[1] = outcome[2]
  /\ args[1].privateJWK = Obj(ValidJwk)

\* the bytes `secret` stand somewhere in `bytes`
Contains(bytes, secret) ==
  \E i \in 1..(Len(bytes) - Len(secret) + 1) :
    SubSeq(bytes, i, i + Len(secret) - 1) = secret

\* the identity key of call c as an object
IdentityJwk(c) == parsePrivateJWK(args[c].privateJWK).value

\* the byte strings a reader of the request of call c gets out of its
\* headers: the salt, the dh value and the k value, decoded
ExposedBytes(c) ==
  { base64UrlDecode(Header(c, "Encryption").salt).value,
    base64UrlDecode(Header(c, "Crypto-Key").dh).value,
    base64UrlDecode(Header(c, "Authorization").k).value }

\* the secret byte strings of call c: the private scalar d and the auth secret
SecretBytes(c) ==
  { base64UrlDecode(Get(IdentityJwk(c), "d")).value,
    base64UrlDecode(args[c].subscription.keys.auth).value }

\* what call c has had from the provider and must keep: the shared secret,
\* the pseudo-random key, the nonce and the content-encryption key
SecretBits(c) ==
  { env[c].sharedSecretBytes, env[c].pseudoRandomKeyBytes, env[c].nonce,
    env[c].cekBits }

\* C18: in a returned request the key material a reader gets is the salt, the
\* ephemeral public key and the VAPID public key, and nothing else: the
\* headers are the nine known ones, each of its known parts; the token holds
\* the header, the claims aud, exp and sub, and a signature; the body is an
\* AES-GCM ciphertext.  Neither the private scalar d nor the auth secret
\* stands in any of the exposed byte strings, and no derived secret, nor the
\* ephemeral private key, is the body or a part of a header.
NoSecretReturned ==
  \A c \in Calls :
    outcome[c].kind = "returned" =>
      LET request == outcome[c].value
          authorization == Header(c, "Authorization")
          names == IF request.headers.t = "Headers"
                     THEN DOMAIN request.headers.list
                     ELSE { LowerCase(n) : n \in DOMAIN request.headers.v }
      IN /\ DOMAIN request = {"endpoint", "headers", "body"}
         /\ request.endpoint = args[c].subscription.endpoint
         /\ names \subseteq
              {"encryption", "crypto-key", "content-length", "content-type",
               "content-encoding", "authorization", "ttl", "topic", "urgency"}
         /\ DOMAIN Header(c, "Encryption") = {"salt"}
         /\ DOMAIN Header(c, "Crypto-Key") = {"dh"}
         /\ DOMAIN authorization = {"scheme", "t", "k"}
         /\ ExposedBytes(c) =
              { drawn[c].salt,
                generateKey(drawn[c].key).publicKey.raw,
                <<4>> \o base64UrlDecode(Get(IdentityJwk(c), "x")).value
                      \o base64UrlDecode(Get(IdentityJwk(c), "y")).value }
         /\ \A bytes \in ExposedBytes(c), secret \in SecretBytes(c) :
              ~Contains(bytes, secret)
         /\ Len(authorization.t) = 3
         /\ authorization.t[1].of.value = jwtInfo
         /\ DOMAIN authorization.t[2].of.value = {"aud", "exp", "sub"}
         /\ DOMAIN authorization.t[3].of = {"ecdsa"}
         /\ DOMAIN request.body = {"aesgcm", "byteLength"}
         /\ request.body \notin SecretBits(c)
         /\ request.body # env[c].localKeys.privateKey

\* a call has returned, its auth secret of 16 bytes and its salt of 16 bytes
\* being different byte strings, and its k value being 65 bytes that do not
\* hold d
NoSecretReturnedWitness ==
  \E c \in Calls :
    /\ outcome[c].kind = "returned"
    /\ Len(base64UrlDecode(args[c].subscription.keys.auth).value) = 16
    /\ Len(base64UrlDecode(Header(c, "Encryption").salt).value) = 16
    /\ Len(base64UrlDecode(Header(c, "Authorization").k).value) = 65
    /\ Len(base64UrlDecode(Get(IdentityJwk(c), "d")).value) = 32

\* the place of the first op in seq (0 when there is none)
First(seq, op) ==
  IF \E i \in DOMAIN seq : seq[i] = op
    THEN CHOOSE i \in DOMAIN seq : seq[i] = op /\ \A j \in 1..(i - 1) : seq[j] # op
    ELSE 0

\* local `name` of call c is set
Has(c, name) == name \in DOMAIN env[c]

Last(seq, op) ==
  IF \E i \in DOMAIN seq : seq[i] = op
    THEN CHOOSE i \in DOMAIN seq : seq[i] = op /\ \A j \in (i + 1)..Len(seq) : seq[j] # op
    ELSE 0

\* in the log of call c, a comes before b (when b is there at all)
Before(c, a, b) ==
  Ran(c, b) => (Ran(c, a) /\ Last(log[c], a) < First(log[c], b))

\* the checks of the identity, the endpoint, the TTL and the subscriber keys
ValidatorChecks ==
  {"parsePrivateJWK", "validatePrivateJWK", "validateEndpoint", "checkTtl",
   "importClientKeys"}

\* the steps a call runs once at most
SingleSteps ==
  ValidatorChecks \cup
    {"JSON.stringify", "getRandomValues", "generateKey", "encode", "padPayload",
     "encrypt", "getPublicKeyFromJwk", "createJwt", "sign", "return"}

\* the order of the stages of call c, but for the place of the serialisation:
\* the checks of the Validator before the first import and the first
\* derivation; the four derivations before the payload is encoded, checked
\* for size and padded, and that before the encryption; the token encoded,
\* the VAPID key imported and the signature made only once the encryption has
\* resolved and the ephemeral public key is being exported; the return last;
\* no step twice.
StagesInOrder(c) ==
  /\ \A check \in ValidatorChecks :
       /\ Before(c, check, "importKey")
       /\ Before(c, check, "deriveBits")
  /\ Before(c, "generateKey", "deriveBits")
  /\ Ran(c, "encode") => Count(log[c], "deriveBits") = 4
  /\ Before(c, "deriveBits", "encode")
  /\ Before(c, "encode", "padPayload")
  /\ Before(c, "padPayload", "encrypt")
  /\ Before(c, "encrypt", "getPublicKeyFromJwk")
  /\ Ran(c, "getPublicKeyFromJwk") =>
       /\ Last(log[c], "exportKey") > First(log[c], "encrypt")
       /\ Last(log[c], "exportKey") < First(log[c], "getPublicKeyFromJwk")
  /\ Before(c, "getPublicKeyFromJwk", "createJwt")
  /\ Ran(c, "createJwt") /\ Ran(c, "sign") =>
       /\ Last(log[c], "importKey") > First(log[c], "createJwt")
       /\ Last(log[c], "importKey") < First(log[c], "sign")
  /\ Before(c, "createJwt", "sign")
  /\ Before(c, "sign", "return")
  /\ RejectedWith(c, "provider: encrypt") =>
       ~Ran(c, "createJwt") /\ ~Ran(c, "sign")
  /\ \A step \in SingleSteps : Count(log[c], step) <= 1
  /\ Count(log[c], "deriveBits") <= 4

\* C20 as stated: the stages in order, the payload being serialised after
\* the key derivation.
StageOrderAsStated ==
  \A c \in Calls :
    /\ StagesInOrder(c)
    /\ Ran(c, "JSON.stringify") => Count(log[c], "deriveBits") = 4
    /\ Before(c, "deriveBits", "JSON.stringify")

\* C20, amended: the stages in order, the payload being serialised to its
\* JSON text when the options are built, after the checks of identity,
\* endpoint and TTL and before the salt is drawn and the key pair generated;
\* its encoding to bytes, size check and padding come after the key
\* derivation and before the encryption.
StageOrder ==
  \A c \in Calls :
    /\ StagesInOrder(c)
    /\ Before(c, "checkTtl", "JSON.stringify")
    /\ Before(c, "JSON.stringify", "getRandomValues")
    /\ Before(c, "JSON.stringify", "encode")

\* a call has returned, having run every stage
StageOrderWitness ==
  \E c \in Calls :
    /\ outcome[c].kind = "returned"
    /\ Ran(c, "JSON.stringify") /\ Count(log[c], "deriveBits") = 4
    /\ Ran(c, "padPayload") /\ Ran(c, "encrypt") /\ Ran(c, "sign")
    /\ First(log[c], "JSON.stringify") < First(log[c], "deriveBits")
    /\ First(log[c], "encrypt") < First(log[c], "sign")

\* the operations of crypto.subtle
SubtleOperations ==
  {"generateKey", "importKey", "exportKey", "deriveBits", "encrypt", "sign"}

\* how many operations of crypto.subtle call c has invoked
RECURSIVE Invoked(_)
Invoked(seq) ==
  IF seq = <<>> THEN 0
  ELSE (IF Head(seq) \in SubtleOperations THEN 1 ELSE 0) + Invoked(Tail(seq))

\* C21: in the step in which the provider rejects the promise a call awaits,
\* the call invokes no operation and ends with an error that names the
\* failure; an ended call invokes nothing afterwards; and a call that returns
\* has generated one key pair, derived bits four times (the ECDH secret, then
\* by HKDF the pseudo-random key, the nonce and the content-encryption key),
\* encrypted once and signed once.
NoRetry ==
  /\ [][\A c \in Calls :
          /\ (pc[c] \in Awaiting /\ outcome'[c].kind = "error"
                /\ outcome'[c].error = "provider: " \o pc[c])
               => (log'[c] = log[c] /\ pc'[c] = "done")
          /\ pc[c] = "done" => (log'[c] = log[c] /\ pc'[c] = "done")]_vars
  /\ [](\A c \in Calls :
         outcome[c].kind = "returned" =>
           /\ Count(log[c], "generateKey") = 1
           /\ Count(log[c], "deriveBits") = 4
           /\ DOMAIN env[c].sharedSecretBytes = {"ecdh"}
           /\ \A bits \in {env[c].pseudoRandomKeyBytes, env[c].nonce, env[c].cekBits} :
                DOMAIN bits = {"hkdf"}
           /\ Cardinality({env[c].pseudoRandomKeyBytes, env[c].nonce, env[c].cekBits}) = 3
           /\ Count(log[c], "encrypt") = 1
           /\ Count(log[c], "sign") = 1
           /\ Invoked(log[c]) = 15)

\* the provider has rejected the derivation of the nonce of a call: the call
\* has ended with that error, three derivations invoked and no encryption
NoRetryWitness ==
  \E c \in Calls :
    /\ RejectedWith(c, "provider: deriveBits:nonce")
    /\ Count(log[c], "deriveBits") = 3
    /\ ~Ran(c, "encrypt") /\ ~Ran(c, "sign")

\* n as an unsigned 16-bit integer, most significant byte first
Uint16BigEndian(n) == <<(n \div 256) % 256, n % 256>>

\* the raw subscriber public key of call c, decoded from the subscription,
\* and the raw ephemeral public key the provider generated for the call
SubscriberPoint(c) ==
  atob(base64UrlDecodeString(args[c].subscription.keys.p256dh).value).value
EphemeralPoint(c) == generateKey(drawn[c].key).publicKey.raw

\* C22: the context a call has built is the six bytes of 'P-256\0', then the
\* length of the subscriber public key on two bytes, most significant first,
\* and the key, then the length of the ephemeral public key on two bytes and
\* the key: 140 bytes for keys of 65 bytes, each length field being 0x00 0x41.
ContextLayout ==
  \A c \in Calls :
    (pc[c] # "idle" /\ "context" \in DOMAIN env[c]) =>
      LET context == env[c].context
      IN /\ Len(context) = 140
         /\ SubSeq(context, 1, 6) = <<80, 45, 50, 53, 54, 0>>
         /\ SubSeq(context, 7, 8) = Uint16BigEndian(Len(SubscriberPoint(c)))
         /\ SubSeq(context, 7, 8) = <<0, 65>>
         /\ SubSeq(context, 9, 73) = SubscriberPoint(c)
         /\ SubSeq(context, 74, 75) = Uint16BigEndian(Len(EphemeralPoint(c)))
         /\ SubSeq(context, 74, 75) = <<0, 65>>
         /\ SubSeq(context, 76, 140) = EphemeralPoint(c)

\* a call has built its context from a subscriber key and an ephemeral key
\* that differ
ContextLayoutWitness ==
  \E c \in Calls :
    /\ pc[c] = "deriveBits:nonce"
    /\ Len(env[c].context) = 140
    /\ SubscriberPoint(c) # EphemeralPoint(c)
    /\ SubSeq(env[c].context, 9, 73) = SubscriberPoint(c)

\* C23: in a call that has encrypted, the pseudo-random key is the 256 bits
\* HKDF gives from the ECDH secret of the ephemeral private key and the
\* subscriber public key, with the auth secret as salt and
\* 'Content-Encoding: auth\0' as info; the nonce (96 bits) and the
\* content-encryption key (128 bits) are HKDF of that pseudo-random key with
\* the salt of the call, their infos being 'Content-Encoding: nonce\0' and
\* 'Content-Encoding: aesgcm\0' followed by the same context; and the body
\* is encrypted under that key with that nonce.
DerivationChain ==
  \A c \in Calls :
    (pc[c] # "idle" /\ "body" \in DOMAIN env[c]) =>
      LET prk == env[c].pseudoRandomKeyBytes.hkdf
          nonce == env[c].nonce.hkdf
          cek == env[c].cekBits.hkdf
      IN /\ prk.salt = base64UrlDecode(args[c].subscription.keys.auth).value
         /\ Len(prk.salt) = 16
         /\ prk.info = AuthInfo /\ Len(AuthInfo) = 23
         /\ prk.ikm = [ecdh |-> {SubscriberPoint(c), EphemeralPoint(c)}]
         /\ prk.bits = 256
         /\ nonce.ikm = env[c].pseudoRandomKeyBytes
         /\ cek.ikm = env[c].pseudoRandomKeyBytes
         /\ nonce.salt = drawn[c].salt /\ cek.salt = drawn[c].salt
         /\ nonce.info = NonceInfoPrefix \o env[c].context
         /\ cek.info = AesgcmInfoPrefix \o env[c].context
         /\ NonceInfoPrefix # AesgcmInfoPrefix
         /\ nonce.bits = 96 /\ cek.bits = 128
         /\ env[c].body.aesgcm.key = env[c].cekBits
         /\ env[c].body.aesgcm.iv = env[c].nonce

\* a call has encrypted its frame under the key and the nonce it derived
DerivationChainWitness ==
  \E c \in Calls :
    /\ pc[c] = "exportKey:dh"
    /\ env[c].body.aesgcm.key = env[c].cekBits
    /\ env[c].body.aesgcm.iv = env[c].nonce
    /\ env[c].cekBits # env[c].nonce

\* the padding length written in the frame of call c
PaddingLength(c) == env[c].paddedPayload[1] * 256 + env[c].paddedPayload[2]

\* the padding lengths the payload of call c allows
PaddingRange(c) == 0..Min(100, 4076 - PayloadLength(c))

\* the least value of Math.random(), as a numerator over RandomResolution,
\* for which a range of `count` padding lengths gives the length q
LeastDraw(q, count) == (q * RandomResolution + count - 1) \div count

\* C24: the padding length of a framed payload of n bytes is an integer
\* from 0 to the lesser of 100 and 4076 - n, never above 100; each integer
\* of that range is the length padPayload picks for some value of
\* Math.random(); and the frame is at most 4078 bytes.
PaddingLengthRange ==
  \A c \in Calls :
    (pc[c] # "idle" /\ "paddedPayload" \in DOMAIN env[c]) =>
      /\ PayloadLength(c) \in 0..4076
      /\ PaddingLength(c) \in PaddingRange(c)
      /\ PaddingLength(c) <= 100
      /\ Len(env[c].paddedPayload) <= 4078
      /\ \A q \in PaddingRange(c) :
           LET k == LeastDraw(q, Cardinality(PaddingRange(c)))
           IN k \in 0..(RandomResolution - 1) /\ paddingSize(PayloadLength(c), k) = q

\* a payload of two bytes has been framed with 100 bytes of padding, 4074
\* being available
PaddingLengthRangeWitness ==
  \E c \in Calls :
    /\ pc[c] = "encrypt"
    /\ PayloadLength(c) = 2
    /\ PaddingLength(c) = 100

\* the padding length padPayload picks for call c, from the value of
\* Math.random() the call was given
ChosenPadding(c) == paddingSize(PayloadLength(c), drawn[c].random)

\* C25: the frame of a payload of n bytes padded with p bytes is 2 + p + n
\* bytes long: p on two bytes, most significant first, then the p bytes of
\* padding, then the n bytes of the payload as they were.
FrameLayout ==
  \A c \in Calls :
    (pc[c] # "idle" /\ "paddedPayload" \in DOMAIN env[c]) =>
      LET frame == env[c].paddedPayload
          padding == ChosenPadding(c)
          n == PayloadLength(c)
      IN /\ Len(frame) = 2 + padding + n
         /\ SubSeq(frame, 1, 2) = Uint16BigEndian(padding)
         /\ SubSeq(frame, 3 + padding, 2 + padding + n) = PayloadBytes(c)
         /\ Len(PayloadBytes(c)) = n

\* a payload of 3976 bytes has been framed after 50 bytes of padding
FrameLayoutWitness ==
  \E c \in Calls :
    /\ pc[c] = "encrypt"
    /\ PayloadLength(c) = 3976
    /\ ChosenPadding(c) = 50
    /\ Len(env[c].paddedPayload) = 4028

\* the padding bytes of the frame of call c
PaddingBytes(c) == SubSeq(env[c].paddedPayload, 3, 2 + ChosenPadding(c))

\* the values of Math.random() next to the one call c was given
NeighbouringDraws(c) ==
  {drawn[c].random - 1, drawn[c].random + 1} \cap 0..(RandomResolution - 1)

\* C26 as stated: the content of the padding comes from the random source:
\* for a frame with padding, another value of the random source that gives
\* the same padding length gives other padding bytes.
PaddingRandomFilled ==
  \A c \in Calls :
    (pc[c] # "idle" /\ "paddedPayload" \in DOMAIN env[c] /\ ChosenPadding(c) > 0) =>
      \E k \in NeighbouringDraws(c) :
        /\ paddingSize(PayloadLength(c), k) = ChosenPadding(c)
        /\ padPayload(PayloadBytes(c), k).value # env[c].paddedPayload

\* C26, amended: the padding bytes are all zero, whatever the random source
\* gives; only their number is drawn.
PaddingZeroFilled ==
  \A c \in Calls :
    (pc[c] # "idle" /\ "paddedPayload" \in DOMAIN env[c]) =>
      /\ PaddingBytes(c) = Fill(ChosenPadding(c), 0)
      /\ \A k \in NeighbouringDraws(c) :
           paddingSize(PayloadLength(c), k) = ChosenPadding(c)
             => padPayload(PayloadBytes(c), k).value = env[c].paddedPayload

\* a frame has 100 bytes of padding, all zero, for the greatest value of
\* Math.random(), as it has for the value below
PaddingZeroFilledWitness ==
  \E c \in Calls :
    /\ pc[c] = "encrypt"
    /\ drawn[c].random = RandomResolution - 1
    /\ ChosenPadding(c) = 100
    /\ PaddingBytes(c) = Fill(100, 0)
    /\ paddingSize(PayloadLength(c), RandomResolution - 2) = 100

\* the bytes a coordinate of the identity of call c decodes to
Coordinate(c, name) == base64UrlDecode(Get(IdentityJwk(c), name))

\* C27: the identity of a call that returned has x, y and d each decoding to
\* exactly 32 bytes, and the k of the Authorization header is the base64url
\* text of the 65 bytes 0x04, x, y; an identity with a coordinate of another
\* length never gives a returned request.
IdentityCoordinates ==
  \A c \in Calls :
    outcome[c].kind = "returned" =>
      /\ \A name \in {"x", "y", "d"} :
           Coordinate(c, name).ok /\ Len(Coordinate(c, name).value) = 32
      /\ Header(c, "Authorization").k =
           base64UrlEncode(<<4>> \o Coordinate(c, "x").value \o Coordinate(c, "y").value)
      /\ Len(base64UrlDecode(Header(c, "Authorization").k).value) = 65

\* the salt and the ephemeral public key that the headers of call c carry
HeaderSalt(c) == base64UrlDecode(Header(c, "Encryption").salt).value
HeaderDh(c) == base64UrlDecode(Header(c, "Crypto-Key").dh).value

\* C28: in a call that returned, the salt of the Encryption header is the
\* HKDF salt of the nonce and of the content-encryption key under which the
\* body was encrypted, and the dh of the Crypto-Key header is the public half
\* of the ephemeral pair whose private half went into the ECDH with the
\* subscriber key and whose public half closes the derivation context.
HeaderCipherConsistency ==
  \A c \in Calls :
    outcome[c].kind = "returned" =>
      /\ Len(HeaderSalt(c)) = 16
      /\ HeaderSalt(c) = env[c].nonce.hkdf.salt
      /\ HeaderSalt(c) = env[c].cekBits.hkdf.salt
      /\ outcome[c].value.body.aesgcm.iv = env[c].nonce
      /\ outcome[c].value.body.aesgcm.key = env[c].cekBits
      /\ Len(HeaderDh(c)) = 65
      /\ HeaderDh(c) = exportRaw(env[c].localKeys.publicKey)
      /\ env[c].localKeys.privateKey.of = HeaderDh(c)
      /\ env[c].sharedSecretBytes = ecdhBits(env[c].p256, env[c].localKeys.privateKey)
      /\ env[c].sharedSecretBytes.ecdh = {SubscriberPoint(c), HeaderDh(c)}
      /\ env[c].pseudoRandomKeyBytes.hkdf.ikm = env[c].sharedSecretBytes
      /\ SubSeq(env[c].context, 76, 140) = HeaderDh(c)

\* a call has returned headers whose dh is the ephemeral key, not the
\* subscriber's, and whose salt is the one the call drew
HeaderCipherConsistencyWitness ==
  \E c \in Calls :
    /\ outcome[c].kind = "returned"
    /\ HeaderDh(c) = EphemeralPoint(c)
    /\ HeaderDh(c) # SubscriberPoint(c)
    /\ HeaderSalt(c) = drawn[c].salt
    /\ Cardinality(env[c].sharedSecretBytes.ecdh) = 2

\* the checks of a call in the order of C29
Checks ==
  <<"parse", "kty", "crv", "x", "y", "d", "url", "https", "ttl", "auth",
    "p256dh empty", "p256dh length", "p256dh prefix", "payload">>

\* the value the identity of call c is once parsed (the identity itself when
\* it is not a string or does not parse)
ParsedIdentity(c) ==
  LET k == args[c].privateJWK
  IN IF k.t = "jsontext" /\ k.parses THEN k.value ELSE k

\* property f of the value v is not a non-empty string
LacksString(v, f) == ~(v.t = "object" /\ NonEmptyString(v.v, f))

\* the inputs of call c do not pass the check
FailsCheck(c, check) ==
  LET jwk == ParsedIdentity(c)
      url == URLParse(args[c].subscription.endpoint)
      auth == base64UrlDecode(args[c].subscription.keys.auth)
      p256dh == args[c].subscription.keys.p256dh
      point == IF Len(p256dh.v) = 0 THEN Throw("Invalid input")
               ELSE base64UrlDecode(p256dh)
  IN CASE check = "parse" -> args[c].privateJWK.t = "jsontext" /\ ~args[c].privateJWK.parses
       [] check = "kty" -> ~StrictEq(Get(jwk, "kty"), Text("EC"))
       [] check = "crv" -> ~StrictEq(Get(jwk, "crv"), Text("P-256"))
       [] check = "x" -> LacksString(jwk, "x")
       [] check = "y" -> LacksString(jwk, "y")
       [] check = "d" -> LacksString(jwk, "d")
       [] check = "url" -> ~url.ok
       [] check = "https" -> ~url.ok \/ url.value.protocol # "https:"
       [] check = "ttl" -> ttlTooLarge(args[c].message)
       [] check = "auth" -> ~auth.ok \/ Len(auth.value) # 16
       [] check = "p256dh empty" -> Len(p256dh.v) = 0
       [] check = "p256dh length" -> ~point.ok \/ Len(point.value) # 65
       [] check = "p256dh prefix" ->
            ~point.ok \/ Len(point.value) = 0 \/ point.value[1] # 4
       [] check = "payload" -> PayloadLength(c) > MAX_PAYLOAD_SIZE

\* the errors with which the check reports
Reports(check) ==
  CASE check = "parse" -> {"Invalid privateJWK: failed to parse JSON string"}
    [] check = "kty" -> {"Invalid JWK: 'kty' must be 'EC'"}
    [] check = "crv" -> {"Invalid JWK: 'crv' must be 'P-256'"}
    [] check = "x" -> {"Invalid JWK: missing or invalid 'x' coordinate"}
    [] check = "y" -> {"Invalid JWK: missing or invalid 'y' coordinate"}
    [] check = "d" -> {"Invalid JWK: missing or invalid 'd' (private key)"}
    [] check = "url" -> {"Invalid subscription endpoint: is not a valid URL"}
    [] check = "https" -> {"Invalid subscription endpoint: push endpoints must use HTTPS"}
    [] check = "ttl" -> {"TTL must be less than 24 hours"}
    [] check = "auth" -> {"Invalid input", "InvalidCharacterError", "Incorrect auth length"}
    [] check = "p256dh empty" -> {"Invalid input"}
    [] check = "p256dh length" ->
         {"InvalidCharacterError", "Invalid p256dh key: expected 65 bytes"}
    [] check = "p256dh prefix" ->
         {"Invalid p256dh key: expected uncompressed point format"}
    [] check = "payload" -> {"Payload too large"}

\* the first check, in the order of Checks, that the inputs of call c fail
FailingChecks(c) == {i \in DOMAIN Checks : FailsCheck(c, Checks[i])}
FirstFailingCheck(c) ==
  Checks[CHOOSE i \in FailingChecks(c) : \A j \in FailingChecks(c) : i <= j]

\* call c has ended with an error of its own, not with a rejection of the
\* provider
RefusedByCheck(c) ==
  /\ pc[c] = "done" /\ outcome[c].kind = "error"
  /\ outcome[c].error \notin {"provider: " \o p : p \in Awaiting}

\* C29: a call whose inputs fail one or several of the checks, and which
\* the provider does not fail, ends with the error of the first failing check
\* in the order: JWK string parse, kty, crv, x, y, d, endpoint is a URL,
\* endpoint is HTTPS, TTL above 86400, auth secret, p256dh empty, p256dh not
\* 65 bytes, p256dh first byte, payload above 4076 bytes.
ErrorPrecedence ==
  \A c \in Calls :
    (RefusedByCheck(c) /\ FailingChecks(c) # {}) =>
      outcome[c].error \in Reports(FirstFailingCheck(c))

\* the same of the calls whose identity is not null: the order holds of them
ErrorPrecedenceOfObjects ==
  \A c \in Calls :
    (RefusedByCheck(c) /\ FailingChecks(c) # {}
       /\ ParsedIdentity(c).t \notin {"null", "undefined"}) =>
      outcome[c].error \in Reports(FirstFailingCheck(c))

\* a call with an oversized payload and a subscriber key of the wrong length
\* has ended with the error of the key
ErrorPrecedenceWitness ==
  \E c \in Calls :
    /\ RefusedByCheck(c)
    /\ FailsCheck(c, "payload") /\ FailsCheck(c, "p256dh length")
    /\ FirstFailingCheck(c) = "p256dh length"
    /\ outcome[c].error = "Invalid p256dh key: expected 65 bytes"

\* C30: the body of a call that returned, for a payload of n bytes padded
\* with p bytes, is 2 + p + n + 16 bytes long, the frame and the 16 bytes of
\* the AES-GCM tag; its length, which the Content-Length header gives in
\* decimal, is at least 18 and at most 4094, under the 4096 bytes of Web Push.
BodySizeBound ==
  \A c \in Calls :
    outcome[c].kind = "returned" =>
      LET n == PayloadLength(c)
          p == PaddingLength(c)
          size == outcome[c].value.body.byteLength
      IN /\ size = 2 + p + n + 16
         /\ size = Len(outcome[c].value.body.aesgcm.plaintext) + 16
         /\ size >= 18 /\ size <= 4094 /\ size <= 4096
         /\ Header(c, "Content-Length") = numberToString(Num(size))
         /\ Header(c, "Content-Length").digits = Digits(2 + p + n + 16)

\* a call has returned a body of 4094 bytes for a payload of 3976 bytes with
\* 100 bytes of padding, the most the two together can make
BodySizeBoundWitness ==
  \E c \in Calls :
    /\ outcome[c].kind = "returned"
    /\ PayloadLength(c) = 3976 /\ PaddingLength(c) = 100
    /\ outcome[c].value.body.byteLength = 4094
    /\ Len(outcome[c].value.body.aesgcm.plaintext) = 4078

====
